---- MODULE Spec2Model ----
(***************************************************************************)
(* Model of dmp, the file hex/ASCII dump utility (src/datam.h).            *)
(*                                                                         *)
(* The state is the set of option globals that main() initialises and      *)
(* proc_args() changes, the input file behind Fpi, and the locals of       *)
(* dump_file(): adr, ch, cnt, ix, asc and the text written to fpo.         *)
(* One step of the model is one iteration of the while loop of dump_file   *)
(* (or its exit), followed by one step for the end-of-file processing;     *)
(* where main() is modelled, one step for its end-of-file reporting and    *)
(* one for the turn of its loop that opens and dumps the next file.        *)
(*                                                                         *)
(* Text is a sequence of one-character strings.  The text written to fpo   *)
(* is kept as the sequence of pieces written by the fprintf calls, each    *)
(* labelled with the call that wrote it:                                   *)
(*   "addr"   the line address (lines 572-589)                             *)
(*   "byte"   the two hex digits of a byte (line 593; empty when HexDump   *)
(*            is off, so that the piece still marks the byte's place)      *)
(*   "grp"    the word-group and half-gap blanks (lines 611-612, 657-658)  *)
(*   "pad"    the blanks that stand for a missing byte (line 649)          *)
(*   "gutter" the separator and the |...| field (lines 628, 675)           *)
(*   "nl"     a line terminator (lines 631, 675, 681)                      *)
(*   "end"    the ending address line (line 686)                           *)
(*   "foot"   the End-of-File / End-of-Dump line of main (lines 302-313)   *)
(***************************************************************************)
EXTENDS Integers, Sequences, FiniteSets, TLC

VARIABLES
    Ascii, LoCase, WordLen, PerLine, AddrNum, HalfGap, EndAddr, AscWide,
    HexDump, Start, Count,      \* option globals read by dump_file
    FileLen, FileRot,           \* the input file behind fpi
    FileErr,                    \* the EOF after its last byte is a read error
    Footer, Files,              \* globals of main: footer option, files dumped
    history,                    \* the dumps main has finished, in order
    argv, aix, err, Name, Pipe, \* the arguments (argv[1] on), main's aix and err,
                                \* the globals Name and Pipe
    WhatLen, WhatTok, WhatMsg, WhatStr,   \* the statics of what.c
    whatArg, whatRet,           \* argument and value of the last call of what
    pos,                        \* read position of fpi
    pc,                         \* "loop", "eof" (end-of-file processing), "done",
                                \* "fault" (undefined behaviour), "reported"
    adr, ch, cnt, ix, asc,      \* locals of dump_file
    out,                        \* text written to fpo
    ret                         \* value returned by dump_file

cfgVars == <<Ascii, LoCase, WordLen, PerLine, AddrNum, HalfGap, EndAddr,
             AscWide, HexDump, Start, Count>>
fileVars == <<FileLen, FileRot, FileErr>>
argVars == <<argv, aix, err, Name, Pipe>>
whatVars == <<WhatLen, WhatTok, WhatMsg, WhatStr, whatArg, whatRet>>
mainVars == <<Footer, Files, history, argVars, whatVars>>
dumpVars == <<pos, adr, ch, cnt, ix, asc, out, ret>>
vars == <<cfgVars, fileVars, mainVars, pos, pc, adr, ch, cnt, ix, asc, out, ret>>

(***************************************************************************)
(* Bounds of the model.                                                    *)
(***************************************************************************)
MaxLen == 9         \* longest input file of the general specifications
MaxStart == 2       \* largest start byte (+#) of the general specifications
MaxCount == 3       \* largest byte limit (-#) of the general specifications
MaxFiles == 2       \* most input files main dumps in one run of the program

(***************************************************************************)
(* Program constants.                                                      *)
(***************************************************************************)
EOF == -1
AscSize == 64
DefPerLine == 16
XHalfGap == 8

(***************************************************************************)
(* Characters.  A byte in 0x20..0x7E prints as itself; the double quote,   *)
(* the backslash and the backtick are written by name.                     *)
(***************************************************************************)
Printable ==
    << " ", "!", "DQUOTE", "#", "$", "%", "&", "'", "(", ")", "*", "+", ",", "-",
       ".", "/", "0", "1", "2", "3", "4", "5", "6", "7", "8", "9", ":", ";",
       "<", "=", ">", "?", "@", "A", "B", "C", "D", "E", "F", "G", "H", "I",
       "J", "K", "L", "M", "N", "O", "P", "Q", "R", "S", "T", "U", "V", "W",
       "X", "Y", "Z", "[", "BACKSLASH", "]", "^", "_", "BACKTICK", "a", "b", "c", "d", "e",
       "f", "g", "h", "i", "j", "k", "l", "m", "n", "o", "p", "q", "r", "s",
       "t", "u", "v", "w", "x", "y", "z", "{", "|", "}", "~" >>

Chr(c) == Printable[c - 31]

UpperDigits == << "0", "1", "2", "3", "4", "5", "6", "7",
                  "8", "9", "A", "B", "C", "D", "E", "F" >>
LowerDigits == << "0", "1", "2", "3", "4", "5", "6", "7",
                  "8", "9", "a", "b", "c", "d", "e", "f" >>

RECURSIVE Repeat(_, _)
Repeat(c, n) == IF n <= 0 THEN << >> ELSE <<c>> \o Repeat(c, n - 1)

(***************************************************************************)
(* The    %0wX / %0wx conversion of a non-negative int: the hexadecimal  *)
(* digits of n, zero-filled on the left to at least w digits.              *)
(***************************************************************************)
RECURSIVE HexDigits(_, _)
HexDigits(n, lower) ==
    LET d == IF lower THEN LowerDigits[(n % 16) + 1] ELSE UpperDigits[(n % 16) + 1]
    IN  IF n < 16 THEN <<d>> ELSE HexDigits(n \div 16, lower) \o <<d>>

PrintfHex(n, w, lower) ==
    LET ds == HexDigits(n, lower)
    IN  Repeat("0", w - Len(ds)) \o ds

(***************************************************************************)
(* The input file: FileLen bytes, byte i (0-based) is taken from a fixed   *)
(* cycle of byte values rotated by FileRot.  The cycle holds the values    *)
(* on both sides of every comparison dump_file makes on a byte.            *)
(***************************************************************************)
ByteCycle == << 0, 65, 10, 126, 31, 127, 32, 255, 124, 1, 90 >>

FileByte(i) == ByteCycle[((i + FileRot) % Len(ByteCycle)) + 1]

\* fgetc( fpi ) at read position p
Fgetc(p) == IF p < FileLen THEN FileByte(p) ELSE EOF


(***************************************************************************)
(* The decisions and the formatting of dump_file, one operator each.       *)
(***************************************************************************)

\* KeepGoing without the test of the limit
KeepGoingNoLimit(c) == c # EOF

\* KeepGoing with the limit test off by one (cnt <= Count)
KeepGoingPastLimit(c) == c # EOF /\ (Count = 0 \/ cnt <= Count)

\* the condition of the while loop, c being the value fgetc returned
KeepGoing(c) == c # EOF /\ (Count = 0 \/ cnt < Count)

\* InSkip ending one byte early (adr + 1 < Start)
InSkipShort(a) == Start # 0 /\ a + 1 < Start

\* InSkip with the start byte itself passed over (adr <= Start)
InSkipInclusive(a) == Start # 0 /\ a <= Start

\* the byte at address a is before the start byte and is passed over
InSkip(a) == Start # 0 /\ a < Start

\* ShowAddr without the test of the line index
ShowAddrEveryByte(i) == AddrNum # 0

\* a line address is written before the byte that gets line index i
ShowAddr(i) == i = 0 /\ AddrNum # 0

\* AddrText with the long format written like the short one (%04X)
AddrTextLongAsShort(a) ==
    LET lc == LoCase # 0
    IN  IF AddrNum = 1 THEN PrintfHex(a, 4, lc) \o <<" ", " ">>
        ELSE IF AddrNum = 2 THEN PrintfHex(a, 4, lc) \o <<" ", " ">>
        ELSE IF AddrNum = 3 THEN
            IF a < 65536 THEN Repeat(" ", 4) \o PrintfHex(a, 4, lc) \o <<" ", " ">>
            ELSE IF a < 1048576 THEN Repeat(" ", 3) \o PrintfHex(a, 5, lc) \o <<" ", " ">>
            ELSE IF a < 16777216 THEN Repeat(" ", 2) \o PrintfHex(a, 6, lc) \o <<" ", " ">>
            ELSE IF a < 268435456 THEN Repeat(" ", 1) \o PrintfHex(a, 7, lc) \o <<" ", " ">>
            ELSE PrintfHex(a, 8, lc) \o <<" ", " ">>
        ELSE << >>

\* AddrText with the magnitude tests of the variable format off by one (<=)
AddrTextInclusive(a) ==
    LET lc == LoCase # 0
    IN  IF AddrNum = 1 THEN PrintfHex(a, 4, lc) \o <<" ", " ">>
        ELSE IF AddrNum = 2 THEN PrintfHex(a, 8, lc) \o <<" ", " ">>
        ELSE IF AddrNum = 3 THEN
            IF a <= 65536 THEN Repeat(" ", 4) \o PrintfHex(a, 4, lc) \o <<" ", " ">>
            ELSE IF a <= 1048576 THEN Repeat(" ", 3) \o PrintfHex(a, 5, lc) \o <<" ", " ">>
            ELSE IF a <= 16777216 THEN Repeat(" ", 2) \o PrintfHex(a, 6, lc) \o <<" ", " ">>
            ELSE IF a <= 268435456 THEN Repeat(" ", 1) \o PrintfHex(a, 7, lc) \o <<" ", " ">>
            ELSE PrintfHex(a, 8, lc) \o <<" ", " ">>
        ELSE << >>

\* the line address field for address a
AddrText(a) ==
    LET lc == LoCase # 0
    IN  IF AddrNum = 1 THEN PrintfHex(a, 4, lc) \o <<" ", " ">>
        ELSE IF AddrNum = 2 THEN PrintfHex(a, 8, lc) \o <<" ", " ">>
        ELSE IF AddrNum = 3 THEN
            IF a < 65536 THEN Repeat(" ", 4) \o PrintfHex(a, 4, lc) \o <<" ", " ">>
            ELSE IF a < 1048576 THEN Repeat(" ", 3) \o PrintfHex(a, 5, lc) \o <<" ", " ">>
            ELSE IF a < 16777216 THEN Repeat(" ", 2) \o PrintfHex(a, 6, lc) \o <<" ", " ">>
            ELSE IF a < 268435456 THEN Repeat(" ", 1) \o PrintfHex(a, 7, lc) \o <<" ", " ">>
            ELSE PrintfHex(a, 8, lc) \o <<" ", " ">>
        ELSE << >>

\* HexText without the zero fill to two digits (%X)
HexTextUnpadded(c) == IF HexDump # 0 THEN PrintfHex(c, 1, LoCase # 0) ELSE << >>

\* the hex digits written for byte c
HexText(c) == IF HexDump # 0 THEN PrintfHex(c, 2, LoCase # 0) ELSE << >>

\* AscChar with the blank taken for a control character (ch <= ' ')
AscCharBlankDot(c) ==
    IF c = 0 THEN "_"
    ELSE IF c <= 32 THEN "."
    ELSE IF c > 126 THEN "."
    ELSE Chr(c)

\* the character stored in asc for byte c
AscChar(c) ==
    IF c = 0 THEN "_"
    ELSE IF c < 32 THEN "."
    ELSE IF c > 126 THEN "."
    ELSE Chr(c)

\* GroupText with the half gap written only where no word blank is (else if)
GroupTextEither(i) ==
    IF HexDump # 0
    THEN IF WordLen # 0 /\ i % WordLen = 0 THEN <<" ">>
         ELSE IF HalfGap # 0 /\ i % HalfGap = 0 THEN <<" ">>
         ELSE << >>
    ELSE << >>

\* the blanks written after the byte (or the blank fill) that made the line index i
GroupText(i) ==
    IF HexDump # 0
    THEN (IF WordLen # 0 /\ i % WordLen = 0 THEN <<" ">> ELSE << >>)
         \o (IF HalfGap # 0 /\ i % HalfGap = 0 THEN <<" ">> ELSE << >>)
    ELSE << >>

\* WrapLine without the test of PerLine (ix >= PerLine alone)
WrapLineAlways(i) == i >= PerLine

\* WrapLine with the test off by one (ix > PerLine)
WrapLineLate(i) == PerLine # 0 /\ i > PerLine

\* the line is full once the line index is i
WrapLine(i) == PerLine # 0 /\ i >= PerLine

\* GutterSep without the test of HalfGap
GutterSepNoHalfGap ==
    IF HexDump # 0
    THEN IF WordLen # 0 THEN <<" ">> ELSE <<" ", " ">>
    ELSE << >>

\* the string sp written in front of the |...| field
GutterSep ==
    IF HexDump # 0
    THEN IF WordLen # 0 /\ HalfGap # 0 THEN << >>
         ELSE IF WordLen # 0 THEN <<" ">>
         ELSE <<" ", " ">>
    ELSE << >>

\* "%s|%s|" of sp and the string a
GutterText(a) == GutterSep \o <<"|">> \o a \o <<"|">>

\* ReturnValue decided by the count reached instead of the byte last read
ReturnValueByCount(c, n) == IF Count = 0 \/ n < Count THEN n ELSE 0 - n

\* the value dump_file returns
ReturnValue(c, n) == IF c = EOF THEN n ELSE 0 - n

Piece(k, t) == [kind |-> k, text |-> t]

GroupPiece(i) == IF GroupText(i) = << >> THEN << >> ELSE << Piece("grp", GroupText(i)) >>

\* EndAddrText with the case of the digits taken from LoCase (%08X or %08x)
EndAddrTextByCase(n) == PrintfHex(n, 8, LoCase # 0) \o <<"NL">>

\* "%08x\n" of the number of bytes dumped
EndAddrText(n) == PrintfHex(n, 8, TRUE) \o <<"NL">>

(***************************************************************************)
(* The blank fill of the last line: the pieces written while the line      *)
(* index goes from i up to PerLine, and the blanks stored in asc.          *)
(***************************************************************************)
\* FillPieces without the blanks of the word group and the half gap
RECURSIVE FillPiecesNoGroup(_)
FillPiecesNoGroup(i) ==
    IF PerLine # 0 /\ i < PerLine
    THEN << Piece("pad", IF HexDump # 0 THEN <<" ", " ">> ELSE << >>) >>
         \o FillPiecesNoGroup(i + 1)
    ELSE << >>

\* FillAsc without the test of AscWide
FillAscAlways(i) ==
    IF PerLine # 0 /\ i < PerLine THEN Repeat(" ", PerLine - i) ELSE << >>

RECURSIVE FillPieces(_)
FillPieces(i) ==
    IF PerLine # 0 /\ i < PerLine
    THEN << Piece("pad", IF HexDump # 0 THEN <<" ", " ">> ELSE << >>) >>
         \o GroupPiece(i + 1) \o FillPieces(i + 1)
    ELSE << >>

FillAsc(i) ==
    IF AscWide # 0 /\ PerLine # 0 /\ i < PerLine THEN Repeat(" ", PerLine - i) ELSE << >>

(***************************************************************************)
(* dump_file                                                               *)
(***************************************************************************)
RunInit ==
    /\ pos = 0
    /\ pc = "loop"
    /\ adr = 0
    /\ ch = 0
    /\ cnt = 0
    /\ ix = 0
    /\ asc = << >>
    /\ out = << >>
    /\ ret = 0

\* the loop condition fails: end of file, or the byte limit is reached
LoopExit ==
    /\ pc = "loop"
    /\ LET c == Fgetc(pos)
       IN  /\ ~KeepGoing(c)
           /\ ch' = c
           /\ pos' = IF c = EOF THEN pos ELSE pos + 1
    /\ pc' = "eof"
    /\ UNCHANGED <<cfgVars, fileVars, mainVars, adr, cnt, ix, asc, out, ret>>

\* one iteration that passes over a byte before the start byte
Skip ==
    /\ pc = "loop"
    /\ LET c == Fgetc(pos)
       IN  /\ KeepGoing(c)
           /\ InSkip(adr)
           /\ ch' = c
           /\ pos' = pos + 1
           /\ adr' = adr + 1
    /\ UNCHANGED <<cfgVars, fileVars, mainVars, pc, cnt, ix, asc, out, ret>>

\* all the iterations that pass over the bytes before the start byte
SkipPhase ==
    /\ pc = "loop"
    /\ KeepGoing(Fgetc(pos))
    /\ InSkip(adr)
    /\ LET n == IF FileLen - pos < Start - adr THEN FileLen - pos ELSE Start - adr
       IN  /\ ch' = Fgetc(pos + n - 1)
           /\ pos' = pos + n
           /\ adr' = adr + n
    /\ UNCHANGED <<cfgVars, fileVars, mainVars, pc, cnt, ix, asc, out, ret>>

\* the store asc[i] = ... is inside char asc[64], and when that byte fills the
\* line a NUL is left behind it for the "%s" that prints asc
AscFits(i) == i < AscSize /\ (WrapLine(i + 1) => i + 1 < AscSize)

\* one iteration that dumps a byte
DumpByte ==
    /\ pc = "loop"
    /\ LET c == Fgetc(pos)
           i == ix + 1
           a == IF Ascii # 0 THEN Append(asc, AscChar(c)) ELSE asc
       IN  /\ KeepGoing(c)
           /\ ~InSkip(adr)
           /\ Ascii # 0 => AscFits(ix)
           /\ ch' = c
           /\ pos' = pos + 1
           /\ out' = out
                \o (IF ShowAddr(ix) THEN << Piece("addr", AddrText(adr)) >> ELSE << >>)
                \o << Piece("byte", HexText(c)) >>
                \o GroupPiece(i)
                \o (IF WrapLine(i)
                    THEN (IF Ascii # 0 THEN << Piece("gutter", GutterText(a)) >> ELSE << >>)
                         \o << Piece("nl", <<"NL">>) >>
                    ELSE << >>)
           /\ ix' = IF WrapLine(i) THEN 0 ELSE i
           /\ asc' = IF WrapLine(i) THEN << >> ELSE a
    /\ adr' = adr + 1
    /\ cnt' = cnt + 1
    /\ UNCHANGED <<cfgVars, fileVars, mainVars, pc, ret>>

\* the end-of-file processing and the return
EndOfFile ==
    /\ pc = "eof"
    /\ (Ascii # 0 /\ ix # 0) => Len(asc \o FillAsc(ix)) < AscSize
    /\ out' = out
         \o (IF Ascii # 0 /\ ix # 0
             THEN FillPieces(ix)
                  \o << Piece("gutter", GutterText(asc \o FillAsc(ix))), Piece("nl", <<"NL">>) >>
             ELSE IF ix # 0 THEN << Piece("nl", <<"NL">>) >>
             ELSE << >>)
         \o (IF EndAddr # 0
             THEN << Piece("end", EndAddrText(cnt)) >>
             ELSE << >>)
    /\ ix' = IF Ascii # 0 /\ ix # 0 /\ PerLine # 0 /\ ix < PerLine THEN PerLine ELSE ix
    /\ asc' = IF Ascii # 0 /\ ix # 0 THEN << >> ELSE asc
    /\ ret' = ReturnValue(ch, cnt)
    /\ pc' = "done"
    /\ UNCHANGED <<cfgVars, fileVars, mainVars, pos, adr, ch, cnt>>

Next == LoopExit \/ Skip \/ DumpByte \/ EndOfFile

(***************************************************************************)
(* Undefined behaviour.  asc is char asc[64] and nothing in dump_file      *)
(* compares ix with its size.  An iteration that stores asc[ix] with       *)
(* ix >= 64, or that prints asc when all 64 characters are set, and an     *)
(* end-of-file processing that does either, leave the language: the run    *)
(* is at "fault", where the process may be killed, with what stdio still   *)
(* buffers lost, or go on with overwritten locals.  Nothing is said about  *)
(* what follows.                                                           *)
(***************************************************************************)
AscFault ==
    /\ pc = "loop"
    /\ LET c == Fgetc(pos)
       IN  /\ KeepGoing(c)
           /\ ~InSkip(adr)
           /\ Ascii # 0
           /\ ~AscFits(ix)
           /\ ch' = c
           /\ pos' = pos + 1
    /\ pc' = "fault"
    /\ UNCHANGED <<cfgVars, fileVars, mainVars, adr, cnt, ix, asc, out, ret>>

EofFault ==
    /\ pc = "eof"
    /\ Ascii # 0
    /\ ix # 0
    /\ Len(asc \o FillAsc(ix)) >= AscSize
    /\ pc' = "fault"
    /\ UNCHANGED <<cfgVars, fileVars, mainVars, pos, adr, ch, cnt, ix, asc, out, ret>>

NextFault == LoopExit \/ Skip \/ DumpByte \/ EndOfFile \/ AscFault \/ EofFault

NextPhase == LoopExit \/ SkipPhase \/ DumpByte \/ EndOfFile


(***************************************************************************)
(* main: the end-of-file reporting after dump_file has returned, and the   *)
(* next turn of the loop, which dumps the next input file.                 *)
(***************************************************************************)
\* "%i" of a non-negative int
RECURSIVE Decimal(_)
Decimal(n) ==
    IF n < 10 THEN << UpperDigits[n + 1] >>
    ELSE Decimal(n \div 10) \o << UpperDigits[(n % 10) + 1] >>

\* ss: the plural s
Ss(n) == IF n = 1 THEN << >> ELSE << "s" >>

EofHead == << " ", " ", " ", " ", "E", "n", "d", "-", "o", "f", "-", "F", "i", "l", "e", " ", " ", " ", "(" >>
EodHead == << " ", " ", " ", " ", "E", "n", "d", "-", "o", "f", "-", "D", "u", "m", "p", " ", " ", " ", "(" >>
ByteWord == << " ", "b", "y", "t", "e" >>
NoteHead == << " ", " ", "(", "E", "o", "F", " ", "b", "e", "f", "o", "r", "e", " " >>
NoteTail == << "-", "b", "y", "t", "e", " ", "l", "i", "m", "i", "t", ")" >>

\* FooterText with a file of no bytes taken for a cut dump (cnt > 0)
FooterTextPositive(r) ==
    LET count == IF r >= 0 THEN r ELSE 0 - r
    IN  IF r > 0
        THEN EofHead \o Decimal(count) \o ByteWord \o Ss(count) \o << ")" >>
             \o (IF Count # 0 THEN NoteHead \o Decimal(Count) \o NoteTail ELSE << >>)
             \o << "NL" >>
        ELSE EodHead \o Decimal(count) \o ByteWord \o Ss(count) \o << ")", "NL" >>

\* the footer line for the value r that dump_file returned
FooterText(r) ==
    LET count == IF r >= 0 THEN r ELSE 0 - r
    IN  IF r >= 0
        THEN EofHead \o Decimal(count) \o ByteWord \o Ss(count) \o << ")" >>
             \o (IF Count # 0 THEN NoteHead \o Decimal(Count) \o NoteTail ELSE << >>)
             \o << "NL" >>
        ELSE EodHead \o Decimal(count) \o ByteWord \o Ss(count) \o << ")", "NL" >>

\* the end-of-file reporting; the file is closed and counted
Report ==
    /\ pc = "done"
    /\ out' = out \o (IF Footer # 0 THEN << Piece("foot", FooterText(ret)) >> ELSE << >>)
    /\ Files' = Files + 1
    /\ history' = Append(history, [ opt |-> cfgVars, len |-> FileLen, rot |-> FileRot,
                                    out |-> out', ret |-> ret,
                                    name |-> Name, arg |-> aix - 1 ])
    /\ pc' = "reported"
    /\ UNCHANGED <<cfgVars, fileVars, Footer, argVars, whatVars,
                   pos, adr, ch, cnt, ix, asc, ret>>

\* EnterDump with the line index kept from the call before (static int ix)
EnterDumpStaticIx ==
    /\ adr' = 0
    /\ ch' = 0
    /\ cnt' = 0
    /\ ix' = ix
    /\ asc' = << >>

\* the locals of dump_file when it is entered
EnterDump ==
    /\ adr' = 0
    /\ ch' = 0
    /\ cnt' = 0
    /\ ix' = 0
    /\ asc' = << >>

\* the files main is given
MainLens == 0..(MaxCount + 2)

\* the next turn of main's loop: an option may change the byte limit, the
\* next file is opened and dump_file is entered
NextFile ==
    /\ pc = "reported"
    /\ Files < MaxFiles
    /\ Count' \in {0, MaxCount}
    /\ FileLen' \in MainLens
    /\ FileRot' \in {0, 5}
    /\ FileErr' = FALSE
    /\ EnterDump
    /\ pos' = 0
    /\ out' = << >>
    /\ ret' = 0
    /\ pc' = "loop"
    /\ UNCHANGED <<Ascii, LoCase, WordLen, PerLine, AddrNum, HalfGap, EndAddr,
                   AscWide, HexDump, Start, mainVars>>

NextMain == LoopExit \/ Skip \/ DumpByte \/ EndOfFile \/ Report \/ NextFile


(***************************************************************************)
(* what.c.  A string is a sequence of characters; a NULL pointer is Null.  *)
(* The statics are WhatLen, WhatTok (the copy of the what-string that      *)
(* strtok cuts up; kept here as it was copied), WhatMsg and WhatStr, the   *)
(* four pointers into WhatTok, kept as the strings they point at.          *)
(***************************************************************************)
Null == << "NULL" >>

NumItems == 4

WhatLead == << "@", "(", "#", ")" >>
InitOkay == << "(", "i", "n", "i", "t", "i", "a", "l", "i", "z", "e", "d", ")" >>
NotInit == << "(", "n", "o", "t", " ", "i", "n", "i", "t", "i", "a", "l", "i", "z", "e", "d", ")" >>
NoInfo == << "(", "n", "o", " ", "v", "e", "r", "s", "i", "o", "n", " ", "i", "n", "f", "o", "r", "m", "a", "t", "i", "o", "n", ")" >>
UnknownHead == << "(", "u", "n", "k", "n", "o", "w", "n", " ", "o", "p", "t", "i", "o", "n", ":", " " >>

\* the What string of what.c itself
WhatSelf == << "@", "(", "#", ")", "w", "h", "a", "t", ".", "c", " ", "v", "0", ".", "2", " ", "0", "2", "/", "2", "8", "/", "2", "0", "2", "5", " ", "D", "a", "t", "a", "M" >>

\* the what-string of the example in the header of what.c
WhatExample == << "@", "(", "#", ")", "d", "m", "p", ".", "c", " ", "v", "0", ".", "1", "1", " ", "0", "8", "/", "2", "4", "/", "2", "0", "2", "1", " ", "D", "a", "t", "a", "M" >>

\* the What string of dmp
DmpWhat == << "@", "(", "#", ")", "d", "m", "p", ".", "c", " ", "v", "0", ".", "2", "1", " ", "0", "3", "/", "2", "7", "/", "2", "0", "2", "5", " ", "D", "a", "t", "a", "M" >>

QName == << "n", "a", "m", "e" >>
QVer == << "v", "e", "r" >>
QDate == << "d", "a", "t", "e" >>
QExtra == << "e", "x", "t", "r", "a" >>
QWhat == << "w", "h", "a", "t" >>

\* WhatDelim
IsDelim(c) == c \in {" ", "TAB"}

RECURSIVE SkipDelims(_, _)
SkipDelims(s, k) == IF k <= Len(s) /\ IsDelim(s[k]) THEN SkipDelims(s, k + 1) ELSE k

RECURSIVE TokEnd(_, _)
TokEnd(s, k) == IF k <= Len(s) /\ ~IsDelim(s[k]) THEN TokEnd(s, k + 1) ELSE k

\* strtok on the string s, resumed at place k: the token, where it begins,
\* the place of the delimiter that strtok overwrites with NUL, and the place
\* where the next call resumes
Strtok(s, k) ==
    LET b == SkipDelims(s, k)
        e == TokEnd(s, b)
    IN  IF b > Len(s)
        THEN [ tok |-> Null, from |-> b, to |-> b, next |-> b ]
        ELSE [ tok |-> SubSeq(s, b, e - 1), from |-> b, to |-> e,
               next |-> IF e <= Len(s) THEN e + 1 ELSE e ]

\* ExtraText without the un-terminating: the fourth token alone
ExtraTextToken(s, t) == t.tok

\* WhatStr[Extra] after the loop: the fourth token t, and when the string s
\* goes on behind it, a blank in the place of its NUL and the rest of s
ExtraText(s, t) ==
    IF t.tok = Null THEN Null
    ELSE IF Len(s) > t.to - 1
         THEN t.tok \o << " " >> \o SubSeq(s, t.to + 1, Len(s))
         ELSE t.tok

\* the statics as a record, and whatClear
WhatState == [ len |-> WhatLen, tok |-> WhatTok, msg |-> WhatMsg, str |-> WhatStr ]

WhatClear(msg) ==
    [ len |-> 0, tok |-> << >>, msg |-> msg, str |-> [ i \in 1..NumItems |-> Null ] ]

\* the statics before the first call
WhatStatic == WhatClear(<< >>)

\* whatsThe: item is 1 (Name) to 4 (Extra)
WhatsThe(st, item) ==
    IF st.str[1] = Null THEN st.msg
    ELSE IF st.str[item] = Null THEN << >>
    ELSE st.str[item]

\* what( "@(#)..." ): the statics after the call and the value returned
WhatLoad(str) ==
    LET s == SubSeq(str, 1, IF Len(str) < 255 THEN Len(str) ELSE 255)
        t0 == Strtok(s, 1)
        spaced == t0.tok = WhatLead
        t1 == IF spaced THEN Strtok(s, t0.next)
              ELSE [ tok |-> SubSeq(t0.tok, Len(WhatLead) + 1, Len(t0.tok)),
                     from |-> t0.from + Len(WhatLead), to |-> t0.to, next |-> t0.next ]
        t2 == Strtok(s, t1.next)
        t3 == IF t2.tok = Null THEN t2 ELSE Strtok(s, t2.next)
        t4 == IF t3.tok = Null THEN t3 ELSE Strtok(s, t3.next)
    IN  IF spaced /\ t1.tok = Null
        THEN [ state |-> WhatClear(NoInfo), ret |-> Null ]
        ELSE [ state |-> [ len |-> Len(s), tok |-> s, msg |-> InitOkay,
                           str |-> << t1.tok, t2.tok, t3.tok, ExtraText(s, t4) >> ],
               ret |-> InitOkay ]

\* what( "what" ) with a what-string loaded: the items joined by blanks
RECURSIVE JoinItems(_, _)
JoinItems(str, i) ==
    IF i > NumItems \/ str[i] = Null THEN << >>
    ELSE (IF i > 1 THEN << " " >> ELSE << >>) \o str[i] \o JoinItems(str, i + 1)

\* what( str ) called with the statics st0: the statics after the call and
\* the string returned
What(st0, str) ==
    LET st == IF WhatSelf = Null /\ st0.len = 0 THEN [ st0 EXCEPT !.msg = NotInit ] ELSE st0
    IN  IF str = Null THEN [ state |-> WhatClear(NotInit), ret |-> NotInit ]
        ELSE IF str = << >> THEN [ state |-> st, ret |-> st.msg ]
        ELSE IF Len(str) >= Len(WhatLead) /\ SubSeq(str, 1, Len(WhatLead)) = WhatLead
             THEN WhatLoad(str)
        ELSE IF str = QName THEN [ state |-> st, ret |-> WhatsThe(st, 1) ]
        ELSE IF str = QVer THEN [ state |-> st, ret |-> WhatsThe(st, 2) ]
        ELSE IF str = QDate THEN [ state |-> st, ret |-> WhatsThe(st, 3) ]
        ELSE IF str = QExtra THEN [ state |-> st, ret |-> WhatsThe(st, 4) ]
        ELSE IF str = QWhat
             THEN IF st.str[1] = Null THEN [ state |-> st, ret |-> st.msg ]
                  ELSE [ state |-> [ st EXCEPT !.msg = JoinItems(st.str, 1) ],
                         ret |-> JoinItems(st.str, 1) ]
        ELSE [ state |-> [ st EXCEPT !.msg = UnknownHead \o str \o << ")" >> ],
               ret |-> UnknownHead \o str \o << ")" >> ]

\* the statics are st and the last call was what( a ) returning r
WhatIs(st, a, r) ==
    /\ WhatLen = st.len
    /\ WhatTok = st.tok
    /\ WhatMsg = st.msg
    /\ WhatStr = st.str
    /\ whatArg = a
    /\ whatRet = r

\* no call of what yet
NoCall == << "NONE" >>

WhatInit == WhatIs(WhatStatic, NoCall, NoCall)

\* main has called what( What )
WhatLoaded == WhatIs(What(WhatStatic, DmpWhat).state, DmpWhat, What(WhatStatic, DmpWhat).ret)

\* one call what( a )
WhatCall(a) ==
    LET r == What(WhatState, a)
    IN  /\ WhatLen' = r.state.len
        /\ WhatTok' = r.state.tok
        /\ WhatMsg' = r.state.msg
        /\ WhatStr' = r.state.str
        /\ whatArg' = a
        /\ whatRet' = r.ret
        /\ UNCHANGED <<cfgVars, fileVars, Footer, Files, history, argVars, pc, dumpVars>>

(***************************************************************************)
(* The option globals.  Defaults is what main() sets before the arguments  *)
(* are processed.  The options change them independently, except that      *)
(* AscWide and EndAddr are changed by -X alone (together with HalfGap),    *)
(* and that HalfGap is cleared again by -c and -xo.                        *)
(***************************************************************************)
Defaults ==
    [ Ascii |-> 1, LoCase |-> 0, WordLen |-> 1, PerLine |-> DefPerLine,
      AddrNum |-> 2, HalfGap |-> 0, EndAddr |-> 0, AscWide |-> 1,
      HexDump |-> 1, Start |-> 0, Count |-> 0 ]

\* the values of <<AscWide, EndAddr, HalfGap>>: no -X; -X; -X then -c or -xo
XModes == { <<1, 0, 0>>, <<0, 1, XHalfGap>>, <<0, 1, 0>> }

SetOptions(o) ==
    /\ Ascii = o.Ascii
    /\ LoCase = o.LoCase
    /\ WordLen = o.WordLen
    /\ PerLine = o.PerLine
    /\ AddrNum = o.AddrNum
    /\ HalfGap = o.HalfGap
    /\ EndAddr = o.EndAddr
    /\ AscWide = o.AscWide
    /\ HexDump = o.HexDump
    /\ Start = o.Start
    /\ Count = o.Count

FileA == << "f", "a" >>

\* the statics of datam.h when the program starts, no file opened
Startup ==
    /\ SetOptions(Defaults)
    /\ FileLen = 0
    /\ FileRot = 0
    /\ FileErr = FALSE
    /\ Footer = 1
    /\ Files = 0
    /\ history = << >>
    /\ aix = 1
    /\ err = 0
    /\ pos = 0
    /\ adr = 0
    /\ ch = 0
    /\ cnt = 0
    /\ ix = 0
    /\ asc = << >>
    /\ out = << >>
    /\ ret = 0

\* main before its loop: footers on, no file dumped yet

\* proc_args has returned with the one file name of the command line
OneFile ==
    /\ argv = << FileA >>
    /\ aix = 2
    /\ err = 0
    /\ Name = FileA
    /\ Pipe = FALSE

MainInit ==
    /\ Footer = 1
    /\ Files = 0
    /\ history = << >>
    /\ OneFile
    /\ WhatLoaded

InitWith(options, lens, rots) ==
    /\ \E o \in options : SetOptions(o)
    /\ FileLen \in lens
    /\ FileRot \in rots
    /\ FileErr = FALSE
    /\ MainInit
    /\ RunInit

(***************************************************************************)
(* Spec: start byte, byte limit, line length and address format vary.      *)
(***************************************************************************)
CountOptions ==
    { [Defaults EXCEPT !.Start = s, !.Count = c, !.PerLine = p, !.AddrNum = n,
                       !.Ascii = a] :
        s \in 0..MaxStart, c \in 0..MaxCount, p \in {0, 3, 4}, n \in 0..3, a \in {0, 1} }

Init == InitWith(CountOptions, 0..MaxLen, {0, 5})

Spec == Init /\ [][Next]_vars


(***************************************************************************)
(* Reading the written text back.                                          *)
(***************************************************************************)
OfKind(o, k) == SelectSeq(o, LAMBDA p : p.kind = k)

NumKind(o, k) == Len(OfKind(o, k))

\* the value of a hexadecimal digit character (16 when it is none)
DigitVal(d) ==
    IF \E v \in 1..16 : UpperDigits[v] = d \/ LowerDigits[v] = d
    THEN (CHOOSE v \in 1..16 : UpperDigits[v] = d \/ LowerDigits[v] = d) - 1
    ELSE 16

IsHexText(t) == \A j \in 1..Len(t) : DigitVal(t[j]) < 16

\* the number a text of hexadecimal digits denotes
RECURSIVE HexVal(_)
HexVal(t) ==
    IF t = << >> THEN 0
    ELSE 16 * HexVal(SubSeq(t, 1, Len(t) - 1)) + DigitVal(t[Len(t)])

\* the bytes read back from the hex digit pairs of the text o, in order
HexBytes(o) == [j \in 1..NumKind(o, "byte") |-> HexVal(OfKind(o, "byte")[j].text)]

\* the text o cut at its line terminators: the terminated lines and the rest
RECURSIVE Split(_, _, _, _)
Split(o, j, lines, cur) ==
    IF j > Len(o) THEN [lines |-> lines, rest |-> cur]
    ELSE IF o[j].kind = "nl" THEN Split(o, j + 1, Append(lines, cur), << >>)
    ELSE Split(o, j + 1, lines, Append(cur, o[j]))

\* the dump lines written so far (the ending address line is not one of them)
DumpText == SelectSeq(out, LAMBDA p : p.kind # "end")
DumpLines == Split(DumpText, 1, << >>, << >>).lines
OpenLine == Split(DumpText, 1, << >>, << >>).rest

\* the part of the input file from byte a (0-based) on, n bytes
FilePart(a, n) == [j \in 1..n |-> FileByte(a + j - 1)]

Max0(n) == IF n > 0 THEN n ELSE 0

(***************************************************************************)
(* C1: with a byte limit L > 0 that is smaller than the number of bytes    *)
(* after the start byte, exactly L bytes are dumped and the value returned *)
(* is -L: the dump is reported as cut by the limit.                        *)
(***************************************************************************)
C1_LimitTruncates ==
    (pc = "done" /\ Count > 0 /\ Count < FileLen - Start)
        => /\ ret = 0 - Count
           /\ NumKind(out, "byte") = Count
           /\ cnt = Count

C1_Witness ==
    /\ pc = "done"
    /\ Start > 0
    /\ Count > 1
    /\ Count < FileLen - Start
    /\ ret < 0

(***************************************************************************)
(* C2: without a byte limit the number of bytes dumped and returned is     *)
(* max(0, len - Start); the bytes before the start byte are read but       *)
(* neither written nor counted, and the bytes written are the rest of the  *)
(* file in order.                                                          *)
(***************************************************************************)
C2_SkipThenAll ==
    (pc = "done" /\ Count = 0)
        => /\ ret = Max0(FileLen - Start)
           /\ cnt = ret
           /\ pos = FileLen
           /\ HexBytes(out) = FilePart(Start, ret)

C2_Witness ==
    /\ pc = "done"
    /\ Count = 0
    /\ Start > 0
    /\ FileLen > Start + 1
    /\ ret = FileLen - Start

C2_WitnessBeyond ==
    /\ pc = "done"
    /\ Count = 0
    /\ Start >= FileLen
    /\ FileLen > 0
    /\ ret = 0

(***************************************************************************)
(* C3: with PerLine = N > 0 a run that dumps E bytes writes E div N lines  *)
(* of N bytes, then one more line of E mod N bytes exactly when E mod N is *)
(* not 0; when E is a multiple of N the end-of-file processing writes no   *)
(* line and no blank fill.                                                 *)
(***************************************************************************)
C3_LineCount ==
    (pc = "done" /\ PerLine > 0)
        => LET E == NumKind(out, "byte")
               full == E \div PerLine
               part == E % PerLine
               ls == DumpLines
           IN  /\ OpenLine = << >>
               /\ Len(ls) = full + (IF part # 0 THEN 1 ELSE 0)
               /\ \A l \in 1..full : NumKind(ls[l], "byte") = PerLine
               /\ part # 0 => NumKind(ls[full + 1], "byte") = part
               /\ part = 0 => NumKind(out, "pad") = 0

C3_Witness ==
    /\ pc = "done"
    /\ PerLine > 0
    /\ cnt > 2 * PerLine
    /\ cnt % PerLine # 0
    /\ Len(DumpLines) = 3

C3_WitnessExact ==
    /\ pc = "done"
    /\ PerLine > 0
    /\ cnt = 2 * PerLine
    /\ Len(DumpLines) = 2


(***************************************************************************)
(* SpecDefault: the options main() starts with, alone or with a start     *)
(* byte (+#), every rotation of the byte cycle, files long enough to fill  *)
(* a line and start the next.                                              *)
(***************************************************************************)
DefaultOptions == { [Defaults EXCEPT !.Start = s] : s \in 0..MaxStart }

InitDefault == InitWith(DefaultOptions, 0..(2 * MaxLen), 0..(Len(ByteCycle) - 1))

\* the options are the ones main() starts with
IsDefault ==
    /\ Ascii = Defaults.Ascii /\ LoCase = Defaults.LoCase /\ WordLen = Defaults.WordLen
    /\ PerLine = Defaults.PerLine /\ AddrNum = Defaults.AddrNum
    /\ HalfGap = Defaults.HalfGap /\ EndAddr = Defaults.EndAddr
    /\ AscWide = Defaults.AscWide /\ HexDump = Defaults.HexDump
    /\ Start = Defaults.Start /\ Count = Defaults.Count

SpecDefault == InitDefault /\ [][Next]_vars

\* the characters of the pieces of o, joined
RECURSIVE Flat(_)
Flat(o) == IF o = << >> THEN << >> ELSE Head(o).text \o Flat(Tail(o))

\* every line written so far, the unterminated one included
AllLines == DumpLines \o (IF OpenLine = << >> THEN << >> ELSE << OpenLine >>)

\* the number of bytes dumped on the lines of ls before line l
RECURSIVE BytesBefore(_, _)
BytesBefore(ls, l) ==
    IF l <= 1 THEN 0 ELSE BytesBefore(ls, l - 1) + NumKind(ls[l - 1], "byte")

(***************************************************************************)
(* C4: with the default options the hex digit pairs of the output, read    *)
(* in order, give back the input: every byte is written once, in order,    *)
(* as exactly two hex digits; in the text of a line the pair of the j-th   *)
(* byte stands after the 10 characters of the address, 3 columns per byte. *)
(***************************************************************************)
C4_RoundTrip ==
    (pc = "done" /\ IsDefault)
        => /\ HexBytes(out) = FilePart(0, FileLen)
           /\ \A j \in 1..NumKind(out, "byte") :
                 LET t == OfKind(out, "byte")[j].text
                 IN  Len(t) = 2 /\ IsHexText(t)
           /\ \A l \in 1..Len(DumpLines) :
                 \A j \in 1..NumKind(DumpLines[l], "byte") :
                    LET raw == Flat(DumpLines[l])
                        col == 10 + 3 * (j - 1)
                        t == SubSeq(raw, col + 1, col + 2)
                    IN  /\ IsHexText(t)
                        /\ HexVal(t) = FileByte(DefPerLine * (l - 1) + j - 1)

C4_Witness ==
    /\ pc = "done"
    /\ IsDefault
    /\ FileLen > DefPerLine
    /\ Len(DumpLines) = 2
    /\ HexBytes(out) = FilePart(0, FileLen)

(***************************************************************************)
(* C5: with AddrNum # 0 every line starts with its address and has no      *)
(* other address, and the address is the offset in the file of the first   *)
(* byte of the line: Start plus the number of bytes dumped on the lines    *)
(* before; with AddrNum = 0 no address is written.                         *)
(***************************************************************************)
\* the number an address field denotes (its blanks dropped)
AddrValue(t) == HexVal(SelectSeq(t, LAMBDA c : c # " "))

C5_AddressAtLineStart ==
    /\ AddrNum = 0 => NumKind(out, "addr") = 0
    /\ AddrNum # 0 =>
          LET ls == AllLines
          IN  \A l \in 1..Len(ls) :
                 /\ ls[l][1].kind = "addr"
                 /\ NumKind(ls[l], "addr") = 1
                 /\ ls[l][2].kind = "byte"
                 /\ IsHexText(SelectSeq(ls[l][1].text, LAMBDA c : c # " "))
                 /\ AddrValue(ls[l][1].text) = Start + BytesBefore(ls, l)

C5_Witness ==
    /\ pc = "done"
    /\ AddrNum # 0
    /\ Start > 0
    /\ Len(DumpLines) = 3
    /\ AddrValue(DumpLines[3][1].text) = Start + 2 * PerLine

C5_WitnessNone ==
    /\ pc = "done"
    /\ AddrNum = 0
    /\ Len(DumpLines) = 3


(***************************************************************************)
(* SpecAddr: the start byte is just below one of the address magnitudes    *)
(* at which an address needs one more digit, so that the line addresses    *)
(* cross it.  The bytes before the start byte are passed over in one step. *)
(***************************************************************************)
Magnitudes == { 65536, 1048576, 16777216, 268435456 }

AddrStarts == {0} \cup { m - d : m \in Magnitudes, d \in {1, 4} }

AddrOptions ==
    { [Defaults EXCEPT !.Start = s, !.AddrNum = n, !.LoCase = lc, !.PerLine = p] :
        s \in AddrStarts, n \in 0..3, lc \in {0, 1}, p \in {1, 4} }

InitAddr ==
    /\ \E o \in AddrOptions :
          /\ SetOptions(o)
          /\ FileLen \in { o.Start + k : k \in 0..MaxLen }
    /\ FileRot \in {0, 5}
    /\ FileErr = FALSE
    /\ MainInit
    /\ RunInit

SpecAddr == InitAddr /\ [][NextPhase]_vars

\* the digits of an address field: what stands between its leading blanks
\* and its last two characters
AddrLead(t) == CHOOSE k \in 0..Len(t) :
                  /\ \A j \in 1..k : t[j] = " "
                  /\ k < Len(t) => t[k + 1] # " "
AddrDigits(t) == SubSeq(t, AddrLead(t) + 1, Len(t) - 2)
AddrTail(t) == SubSeq(t, Len(t) - 1, Len(t))

\* the digits of t are hex digits of the case LoCase asks for
RightCase(t) ==
    \A j \in 1..Len(t) :
       \E v \in 1..16 : t[j] = (IF LoCase # 0 THEN LowerDigits[v] ELSE UpperDigits[v])

\* the number of hex digits n needs
RECURSIVE NumDigits(_)
NumDigits(n) == IF n < 16 THEN 1 ELSE 1 + NumDigits(n \div 16)

(***************************************************************************)
(* C6 as claimed: the address field is exactly 4 hex digits and two blanks *)
(* with AddrNum = 1, exactly 8 hex digits and two blanks with AddrNum = 2, *)
(* whatever the address.                                                   *)
(***************************************************************************)
C6_ExactWidth ==
    LET ls == AllLines
    IN \A l \in 1..Len(ls) :
       LET t == ls[l][1].text
       IN  /\ AddrNum = 1 =>
                (Len(t) = 6 /\ IsHexText(SubSeq(t, 1, 4)) /\ AddrTail(t) = <<" ", " ">>)
           /\ AddrNum = 2 =>
                (Len(t) = 10 /\ IsHexText(SubSeq(t, 1, 8)) /\ AddrTail(t) = <<" ", " ">>)

(***************************************************************************)
(* C6 as amended: with AddrNum = 2 the address field is exactly 8 hex      *)
(* digits and two blanks; with AddrNum = 1 it is at least 4 hex digits and *)
(* two blanks: exactly 4 for an address below 0x10000, and as many digits  *)
(* as the address needs (5 or more) from 0x10000 on.  The digits denote    *)
(* the address of the line and have the case LoCase asks for.              *)
(***************************************************************************)
C6_MinimumWidth ==
    LET ls == AllLines
    IN \A l \in 1..Len(ls) :
       LET t == ls[l][1].text
           a == Start + BytesBefore(ls, l)
           d == SubSeq(t, 1, Len(t) - 2)
       IN  (AddrNum = 1 \/ AddrNum = 2) =>
              /\ AddrTail(t) = <<" ", " ">>
              /\ RightCase(d)
              /\ HexVal(d) = a
              /\ AddrNum = 2 => Len(d) = 8
              /\ AddrNum = 1 => Len(d) = (IF a < 65536 THEN 4 ELSE NumDigits(a))

C6_WitnessShort ==
    /\ pc = "done"
    /\ AddrNum = 1
    /\ Len(AllLines) > 1
    /\ Len(AllLines[1][1].text) = 6
    /\ Len(AllLines[Len(AllLines)][1].text) = 7

C6_WitnessLong ==
    /\ pc = "done"
    /\ AddrNum = 2
    /\ Start + cnt > 268435456
    /\ Len(AllLines) > 1
    /\ Len(AllLines[Len(AllLines)][1].text) = 10

(***************************************************************************)
(* C7: with AddrNum = 3 the address has 4 digits below 0x10000, 5 below    *)
(* 0x100000, 6 below 0x1000000, 7 below 0x10000000 and 8 from there on,    *)
(* after 4, 3, 2, 1 and 0 blanks and before two blanks: the field is 10    *)
(* characters wide on every line and the number of digits never goes down  *)
(* from one line to the next.                                              *)
(***************************************************************************)
VarDigits(a) ==
    IF a < 65536 THEN 4
    ELSE IF a < 1048576 THEN 5
    ELSE IF a < 16777216 THEN 6
    ELSE IF a < 268435456 THEN 7
    ELSE 8

C7_VariableWidth ==
    AddrNum = 3 =>
       LET ls == AllLines
       IN \A l \in 1..Len(ls) :
          LET t == ls[l][1].text
              a == Start + BytesBefore(ls, l)
              d == AddrDigits(t)
          IN  /\ Len(t) = 10
              /\ AddrTail(t) = <<" ", " ">>
              /\ AddrLead(t) = 8 - VarDigits(a)
              /\ Len(d) = VarDigits(a)
              /\ RightCase(d)
              /\ HexVal(d) = a
              /\ l > 1 => Len(d) >= Len(AddrDigits(ls[l - 1][1].text))

C7_Witness ==
    /\ pc = "done"
    /\ AddrNum = 3
    /\ Len(AllLines) > 1
    /\ \E m \in Magnitudes :
          /\ AddrValue(AllLines[1][1].text) < m
          /\ AddrValue(AllLines[Len(AllLines)][1].text) >= m
          /\ Len(AddrDigits(AllLines[Len(AllLines)][1].text))
                = 1 + Len(AddrDigits(AllLines[1][1].text))


(***************************************************************************)
(* SpecLayout: the options that shape a line vary: ASCII field, hex        *)
(* digits, word group, half gap (-X), line length, start and limit.        *)
(***************************************************************************)
LayoutOptions ==
    { [Defaults EXCEPT !.Ascii = a, !.HexDump = h, !.WordLen = w, !.PerLine = p,
                       !.AscWide = x[1], !.EndAddr = x[2], !.HalfGap = x[3],
                       !.Start = s, !.Count = c] :
        a \in {0, 1}, h \in {0, 1}, w \in {0, 1, 2, 4}, p \in {0, 3, DefPerLine},
        x \in XModes, s \in {0, MaxStart}, c \in {0, MaxCount} }

InitLayout == InitWith(LayoutOptions, 0..(2 * MaxLen), {0, 5})

SpecLayout == InitLayout /\ [][Next]_vars

\* the |...| piece of a line (a line has at most one) and what it holds
HasGutter(line) == NumKind(line, "gutter") > 0
GutterOf(line) == OfKind(line, "gutter")[1].text
FirstBar(t) == CHOOSE k \in 1..Len(t) : t[k] = "|" /\ \A j \in 1..(k - 1) : t[j] # "|"
GutterLead(t) == SubSeq(t, 1, FirstBar(t) - 1)
GutterChars(t) == SubSeq(t, FirstBar(t) + 1, Len(t) - 1)

(***************************************************************************)
(* C8: with Ascii set, the i-th character between the bars of a line is    *)
(* the i-th byte dumped on that line, shown as _ for 0x00, as . below 0x20 *)
(* and above 0x7E, and as itself otherwise; between the bars of a full     *)
(* line there are exactly PerLine characters.                              *)
(***************************************************************************)
Shown(b) == IF b = 0 THEN "_" ELSE IF b < 32 \/ b > 126 THEN "." ELSE Printable[b - 31]

C8_GutterShowsBytes ==
    Ascii # 0 =>
       LET ls == DumpLines
       IN \A l \in 1..Len(ls) :
          LET line == ls[l]
              n == NumKind(line, "byte")
              t == GutterOf(line)
          IN  /\ NumKind(line, "gutter") = 1
              /\ line[Len(line)].kind = "gutter"
              /\ t[Len(t)] = "|"
              /\ Len(GutterChars(t)) >= n
              /\ \A i \in 1..n :
                    GutterChars(t)[i] = Shown(FileByte(Start + BytesBefore(ls, l) + i - 1))
              /\ (PerLine # 0 /\ n = PerLine) => Len(GutterChars(t)) = PerLine

C8_Witness ==
    /\ pc = "done"
    /\ Ascii # 0
    /\ PerLine = 3
    /\ Len(DumpLines) > 2
    /\ \E l \in 1..Len(DumpLines) : GutterChars(GutterOf(DumpLines[l])) = <<"_", "A", ".">>
    /\ \E l \in 1..Len(DumpLines) : GutterChars(GutterOf(DumpLines[l])) = <<" ", ".", "|">>

(***************************************************************************)
(* C9: with HexDump set, the j-th byte of a line is followed by one blank  *)
(* iff WordLen > 0 and j mod WordLen = 0, and by one more blank iff        *)
(* HalfGap > 0 and j mod HalfGap = 0 (two blanks where both hold); with    *)
(* HexDump clear no such blank is written.                                 *)
(***************************************************************************)
\* the number of group blanks that follow piece q of a line
RECURSIVE BlanksAfter(_, _)
BlanksAfter(line, q) ==
    IF q < Len(line) /\ line[q + 1].kind = "grp"
    THEN Len(line[q + 1].text) + BlanksAfter(line, q + 1)
    ELSE 0

\* the place in the line of its j-th byte
RECURSIVE PlaceOfByte(_, _, _)
PlaceOfByte(line, j, q) ==
    IF line[q].kind = "byte"
    THEN (IF j = 1 THEN q ELSE PlaceOfByte(line, j - 1, q + 1))
    ELSE PlaceOfByte(line, j, q + 1)

GroupBlanks(j) ==
    (IF WordLen > 0 /\ j % WordLen = 0 THEN 1 ELSE 0)
    + (IF HalfGap > 0 /\ j % HalfGap = 0 THEN 1 ELSE 0)

C9_GroupBlanks ==
    /\ \A q \in 1..Len(out) :
          out[q].kind = "grp" => \A j \in 1..Len(out[q].text) : out[q].text[j] = " "
    /\ LET ls == AllLines
       IN  \A l \in 1..Len(ls) :
              \A j \in 1..NumKind(ls[l], "byte") :
                 BlanksAfter(ls[l], PlaceOfByte(ls[l], j, 1))
                    = (IF HexDump # 0 THEN GroupBlanks(j) ELSE 0)

C9_Witness ==
    /\ pc = "done"
    /\ HexDump # 0
    /\ WordLen = 1
    /\ HalfGap = XHalfGap
    /\ Len(AllLines) > 0
    /\ NumKind(AllLines[1], "byte") > XHalfGap
    /\ BlanksAfter(AllLines[1], PlaceOfByte(AllLines[1], XHalfGap, 1)) = 2
    /\ BlanksAfter(AllLines[1], PlaceOfByte(AllLines[1], XHalfGap + 1, 1)) = 1

C9_WitnessNoHex ==
    /\ pc = "done"
    /\ HexDump = 0
    /\ WordLen = 1
    /\ HalfGap = XHalfGap
    /\ Len(AllLines) > 0
    /\ NumKind(AllLines[1], "byte") > XHalfGap

(***************************************************************************)
(* C10 as claimed: in every configuration the bar that opens the ASCII     *)
(* field is preceded by two blanks, less one when WordLen > 0, less one    *)
(* more when WordLen > 0 and HalfGap > 0.                                  *)
(***************************************************************************)
SepBlanks ==
    2 - (IF WordLen > 0 THEN 1 ELSE 0) - (IF WordLen > 0 /\ HalfGap > 0 THEN 1 ELSE 0)

C10_SeparatorAlways ==
    LET ls == DumpLines
    IN \A l \in 1..Len(ls) :
       HasGutter(ls[l]) =>
          GutterLead(GutterOf(ls[l])) = Repeat(" ", SepBlanks)

(***************************************************************************)
(* C10 as amended: with HexDump set the bar that opens the ASCII field is  *)
(* preceded by two blanks, less one when WordLen > 0, less one more when   *)
(* WordLen > 0 and HalfGap > 0; with HexDump clear it is preceded by no    *)
(* blank at all.  This holds alike for the lines written in the loop and   *)
(* for the last, partly filled line.                                       *)
(***************************************************************************)
C10_SeparatorWithHex ==
    LET ls == DumpLines
    IN \A l \in 1..Len(ls) :
       HasGutter(ls[l]) =>
          GutterLead(GutterOf(ls[l]))
             = (IF HexDump # 0 THEN Repeat(" ", SepBlanks) ELSE << >>)

C10_Witness ==
    /\ pc = "done"
    /\ Ascii # 0
    /\ HexDump # 0
    /\ WordLen > 0
    /\ HalfGap > 0
    /\ PerLine = 3
    /\ Len(DumpLines) = 3
    /\ NumKind(DumpLines[3], "pad") > 0
    /\ GutterLead(GutterOf(DumpLines[1])) = << >>
    /\ GutterLead(GutterOf(DumpLines[3])) = << >>

C10_WitnessNoHex ==
    /\ pc = "done"
    /\ Ascii # 0
    /\ HexDump = 0
    /\ WordLen = 0
    /\ Len(DumpLines) > 1
    /\ GutterLead(GutterOf(DumpLines[1])) = << >>

C10_WitnessTwo ==
    /\ pc = "done"
    /\ Ascii # 0
    /\ HexDump # 0
    /\ WordLen = 0
    /\ Len(DumpLines) > 1
    /\ GutterLead(GutterOf(DumpLines[1])) = <<" ", " ">>

(***************************************************************************)
(* C11: with Ascii set and PerLine > 0 the last, partly filled line is     *)
(* filled with two blanks for every missing byte and with the word group   *)
(* and half gap blanks a full line has at those places, so that on every   *)
(* line of the run, the partly filled one included, the same number of     *)
(* characters stands between the address and the bar that opens the ASCII  *)
(* field.                                                                  *)
(***************************************************************************)
\* the characters of a line between its address and its opening bar
HexField(line) ==
    Flat(SelectSeq(line, LAMBDA p : p.kind \in {"byte", "grp", "pad"}))
       \o GutterLead(GutterOf(line))

\* the width of that field on a line of PerLine bytes
FullWidth ==
    IF HexDump # 0
    THEN 2 * PerLine
         + (IF WordLen > 0 THEN PerLine \div WordLen ELSE 0)
         + (IF HalfGap > 0 THEN PerLine \div HalfGap ELSE 0)
         + SepBlanks
    ELSE 0

C11_PaddedLikeFull ==
    (pc = "done" /\ Ascii # 0 /\ PerLine > 0)
       => LET ls == DumpLines
          IN  \A l \in 1..Len(ls) :
                 LET line == ls[l]
                     m == NumKind(line, "byte")
                 IN  /\ NumKind(line, "pad") = PerLine - m
                     /\ \A q \in 1..Len(line) :
                           line[q].kind = "pad" =>
                              /\ line[q].text = (IF HexDump # 0 THEN <<" ", " ">> ELSE << >>)
                              /\ BlanksAfter(line, q)
                                    = (IF HexDump # 0
                                       THEN GroupBlanks(m + NumKind(SubSeq(line, 1, q), "pad"))
                                       ELSE 0)
                     /\ Len(HexField(line)) = FullWidth
                     /\ Len(HexField(line)) = Len(HexField(ls[1]))

C11_Witness ==
    /\ pc = "done"
    /\ Ascii # 0
    /\ HexDump # 0
    /\ PerLine = DefPerLine
    /\ WordLen = 1
    /\ HalfGap = XHalfGap
    /\ Len(DumpLines) = 2
    /\ NumKind(DumpLines[1], "pad") = 0
    /\ NumKind(DumpLines[2], "pad") > XHalfGap
    /\ Len(HexField(DumpLines[2])) = 3 * DefPerLine + 2

(***************************************************************************)
(* C12: with Ascii set, a last line of m < PerLine bytes shows between its *)
(* bars the m characters of its bytes, followed by PerLine - m blanks when *)
(* AscWide is set and by nothing when AscWide is clear.                    *)
(***************************************************************************)
C12_GutterFill ==
    (pc = "done" /\ Ascii # 0 /\ PerLine > 0)
       => LET ls == DumpLines
          IN  \A l \in 1..Len(ls) :
                 LET m == NumKind(ls[l], "byte")
                     g == GutterChars(GutterOf(ls[l]))
                 IN  m < PerLine =>
                        /\ l = Len(ls)
                        /\ SubSeq(g, 1, m)
                              = [i \in 1..m |-> Shown(FileByte(Start + BytesBefore(ls, l) + i - 1))]
                        /\ IF AscWide # 0
                           THEN /\ Len(g) = PerLine
                                /\ \A i \in (m + 1)..PerLine : g[i] = " "
                           ELSE Len(g) = m

C12_WitnessWide ==
    /\ pc = "done"
    /\ Ascii # 0
    /\ AscWide # 0
    /\ PerLine = 3
    /\ Len(DumpLines) = 2
    /\ NumKind(DumpLines[2], "byte") = 1
    /\ Len(GutterChars(GutterOf(DumpLines[2]))) = 3
    /\ GutterChars(GutterOf(DumpLines[2]))[3] = " "

C12_WitnessBare ==
    /\ pc = "done"
    /\ Ascii # 0
    /\ AscWide = 0
    /\ PerLine = 3
    /\ Len(DumpLines) = 2
    /\ NumKind(DumpLines[2], "byte") = 1
    /\ Len(GutterChars(GutterOf(DumpLines[2]))) = 1

(***************************************************************************)
(* C13: with EndAddr set, one line more is written after every dump line:  *)
(* the number of bytes dumped (not the address reached) as exactly 8 hex   *)
(* digits in lower case, whatever AddrNum and LoCase are; with EndAddr     *)
(* clear no such line is written.                                          *)
(***************************************************************************)
\* SpecEnd: the ending address line (-X) with every address format and case
EndOptions ==
    { [Defaults EXCEPT !.AddrNum = n, !.LoCase = l, !.PerLine = p,
                       !.AscWide = x[1], !.EndAddr = x[2], !.HalfGap = x[3],
                       !.Start = s, !.Count = c] :
        n \in 0..3, l \in {0, 1}, p \in {0, 3, DefPerLine},
        x \in XModes, s \in {0, MaxStart}, c \in {0, MaxCount} }

InitEnd == InitWith(EndOptions, 0..(2 * MaxLen), {0, 5})

SpecEnd == InitEnd /\ [][Next]_vars

IsLowerHex(t) == \A j \in 1..Len(t) : \E v \in 1..16 : t[j] = LowerDigits[v]

C13_WitnessNone ==
    /\ pc = "done"
    /\ EndAddr = 0
    /\ cnt > 0
    /\ out[Len(out)].kind = "nl"

(***************************************************************************)
(* C14 as claimed: in every configuration a file with no byte at or after  *)
(* the start byte produces no output at all: the end-of-file processing    *)
(* writes nothing, the line index stays 0 and the value returned is 0.     *)
(***************************************************************************)
C14_NoOutputAtAll ==
    FileLen <= Start
       => /\ ix = 0
          /\ out = << >>
          /\ pc = "done" => ret = 0

(***************************************************************************)
(* C14 as amended: a file with no byte at or after the start byte produces *)
(* no dump line, the line index stays 0, no byte is counted and the value  *)
(* returned is 0 (end of file, not cut); the end-of-file processing writes *)
(* nothing but, when EndAddr is set, the ending address line 00000000.     *)
(***************************************************************************)
C14_NoDumpLines ==
    FileLen <= Start
       => /\ ix = 0
          /\ cnt = 0
          /\ DumpText = << >>
          /\ pc # "done" => out = << >>
          /\ pc = "done" =>
                /\ ret = 0
                /\ ch = EOF
                /\ pos = FileLen
                /\ out = (IF EndAddr # 0
                          THEN << Piece("end", Repeat("0", 8) \o <<"NL">>) >>
                          ELSE << >>)

C14_Witness ==
    /\ pc = "done"
    /\ FileLen > 0
    /\ FileLen <= Start
    /\ EndAddr # 0
    /\ Len(out) = 1
    /\ out[1].kind = "end"

C14_WitnessEmpty ==
    /\ pc = "done"
    /\ FileLen = 0
    /\ Start = 0
    /\ EndAddr = 0
    /\ out = << >>

(***************************************************************************)
(* SpecBuffer: PerLine = 0 (-p), with the ASCII field off or switched on   *)
(* again (+a), and files of about the size of asc.                         *)
(***************************************************************************)
BufferOptions ==
    { [Defaults EXCEPT !.PerLine = 0, !.Ascii = a, !.AddrNum = n, !.Start = s] :
        a \in {0, 1}, n \in {0, 2}, s \in {0, MaxStart} }

InitBuffer ==
    /\ \E o \in BufferOptions :
          /\ SetOptions(o)
          /\ FileLen \in { o.Start + AscSize + k : k \in -2..2 }
    /\ FileRot \in {0, 5}
    /\ FileErr = FALSE
    /\ MainInit
    /\ RunInit

SpecBuffer == InitBuffer /\ [][NextFault]_vars

(***************************************************************************)
(* C15, for the runs that stay inside asc (ASCII field off, or fewer than  *)
(* 64 bytes dumped): with PerLine = 0 no line terminator is written while  *)
(* bytes are read; a run that dumps at least one byte writes one line,     *)
(* ended by the one terminator of the end-of-file processing.  Without     *)
(* address and ASCII field and with WordLen = 1 that line is the hex pair  *)
(* of every byte, each followed by one blank, then the terminator.         *)
(***************************************************************************)
\* the hex pairs of n bytes of the file from byte a on, a blank after each
RECURSIVE PairsText(_, _)
PairsText(a, n) ==
    IF n <= 0 THEN << >>
    ELSE PairsText(a, n - 1)
         \o << UpperDigits[(FileByte(a + n - 1) \div 16) + 1],
               UpperDigits[(FileByte(a + n - 1) % 16) + 1], " " >>

C15_ContinuousOneLine ==
    PerLine = 0
       => /\ pc # "done" => NumKind(out, "nl") = 0
          /\ (pc = "done" /\ cnt = 0) => NumKind(out, "nl") = 0
          /\ (pc = "done" /\ cnt > 0) =>
                /\ NumKind(out, "nl") = 1
                /\ out[Len(out)].kind = "nl"
                /\ Len(DumpLines) = 1
                /\ NumKind(DumpLines[1], "byte") = cnt
                /\ (AddrNum = 0 /\ Ascii = 0 /\ LoCase = 0)
                      => Flat(out) = PairsText(Start, cnt) \o <<"NL">>

C15_Witness ==
    /\ pc = "done"
    /\ PerLine = 0
    /\ AddrNum = 0
    /\ Ascii = 0
    /\ Count = 0
    /\ cnt = MaxLen
    /\ SubSeq(Flat(out), 1, 6) = <<"0", "0", " ", "4", "1", " ">>
    /\ Flat(out)[3 * MaxLen + 1] = "NL"

C15_WitnessGutter ==
    /\ pc = "done"
    /\ PerLine = 0
    /\ Ascii # 0
    /\ cnt > 4
    /\ out[Len(out) - 1].kind = "gutter"

(***************************************************************************)
(* C15 as claimed: with PerLine = 0, however long the file, a run that has *)
(* dumped at least one byte and is over has written exactly one line       *)
(* terminator, the last thing it wrote.                                    *)
(***************************************************************************)
C15_OneTerminator ==
    (PerLine = 0 /\ cnt > 0 /\ pc \notin {"loop", "eof"})
       => /\ NumKind(out, "nl") = 1
          /\ out[Len(out)].kind = "nl"

(***************************************************************************)
(* C16 as claimed: with PerLine = 0 and Ascii set the run never fails,     *)
(* however long the file: every store into asc is inside asc and asc can   *)
(* be printed.                                                             *)
(***************************************************************************)
C16_AscWritesInside ==
    (PerLine = 0 /\ Ascii # 0)
       => /\ pc # "fault"
          /\ pc = "loop" => (Len(asc) = cnt /\ Len(asc) <= AscSize)

(***************************************************************************)
(* C17 as claimed: with a byte limit Count > 0, no byte beyond the Start   *)
(* bytes passed over and the Count bytes dumped is read from the file.     *)
(***************************************************************************)
C17_NoByteBeyond ==
    Count > 0 => pos <= Start + Count

(***************************************************************************)
(* C17 as amended: with a byte limit Count > 0, once Count bytes are       *)
(* dumped the loop reads one byte more (fgetc is called before the limit   *)
(* is tested), drops it and reads no further: at most Start + Count + 1    *)
(* bytes are ever read, and the byte after the Start + Count is read       *)
(* exactly when the file has one, which is when the value returned is      *)
(* negative.                                                               *)
(***************************************************************************)
C17_OneByteBeyond ==
    Count > 0
       => /\ pos <= Start + Count + 1
          /\ pos <= FileLen
          /\ pc = "loop" => pos = Start + cnt \/ (cnt = 0 /\ pos <= Start)
          /\ pc # "loop" =>
                /\ pos = (IF FileLen > Start + Count THEN Start + Count + 1 ELSE FileLen)
                /\ (ret < 0 \/ (pc = "eof" /\ ch # EOF)) <=> pos = Start + Count + 1
                /\ pos = Start + Count + 1 => ch = FileByte(Start + Count)

C17_Witness ==
    /\ pc = "done"
    /\ Count > 0
    /\ Start > 0
    /\ FileLen > Start + Count + 1
    /\ pos = Start + Count + 1
    /\ cnt = Count

(***************************************************************************)
(* SpecFail: the EOF that fgetc returns after the last byte it could read  *)
(* is the end of the file or a read error.  fgetc returns EOF for both and *)
(* dump_file never calls ferror, so no action reads FileErr.               *)
(***************************************************************************)
FailOptions ==
    { [Defaults EXCEPT !.Ascii = a, !.PerLine = p,
                       !.AscWide = x[1], !.EndAddr = x[2], !.HalfGap = x[3],
                       !.Start = s, !.Count = c] :
        a \in {0, 1}, p \in {0, 3, 4}, x \in XModes,
        s \in {0, MaxStart}, c \in {0, MaxCount} }

InitFail ==
    /\ \E o \in FailOptions : SetOptions(o)
    /\ FileLen \in 0..MaxLen
    /\ FileRot \in {0, 5}
    /\ FileErr \in BOOLEAN
    /\ MainInit
    /\ RunInit

SpecFail == InitFail /\ [][Next]_vars

(***************************************************************************)
(* C18 as claimed: when the read fails while a line is partly filled, the  *)
(* run ends without end-of-file processing: no blank fill, no ASCII field  *)
(* or terminator for the open line, no ending address line, and a return   *)
(* value that is not the one of an end of file.                            *)
(***************************************************************************)
C18_NoFlushOnFailure ==
    (pc = "done" /\ FileErr /\ ch = EOF /\ PerLine > 0 /\ cnt % PerLine # 0)
       => /\ NumKind(out, "pad") = 0
          /\ NumKind(out, "end") = 0
          /\ NumKind(out, "nl") = cnt \div PerLine
          /\ Ascii # 0 => NumKind(out, "gutter") = cnt \div PerLine
          /\ ret # cnt

(***************************************************************************)
(* SpecMain: main dumps up to MaxFiles files one after the other, with or  *)
(* without footers (-i); between two files the byte limit may change.      *)
(***************************************************************************)
MainOptions ==
    { [Defaults EXCEPT !.PerLine = 3, !.Start = s, !.Count = c] :
        s \in {0, 1}, c \in {0, MaxCount} }

InitMain ==
    /\ \E o \in MainOptions : SetOptions(o)
    /\ FileLen \in MainLens
    /\ FileRot \in {0, 5}
    /\ FileErr = FALSE
    /\ Footer \in {0, 1}
    /\ Files = 0
    /\ history = << >>
    /\ OneFile
    /\ WhatLoaded
    /\ RunInit

SpecMain == InitMain /\ [][NextMain]_vars

(***************************************************************************)
(* C19: every dump of a run of the program starts with fresh locals        *)
(* (address 0, line index 0, empty asc, no byte counted, nothing written), *)
(* so what a dump writes and returns depends only on its file and on the   *)
(* options in force: two dumps of the same bytes under the same options    *)
(* agree, whatever was dumped before them.                                 *)
(***************************************************************************)
SameInput(a, b) == a.opt = b.opt /\ a.len = b.len /\ a.rot = b.rot

C19_FreshRuns ==
    /\ (pc = "loop" /\ pos = 0)
          => (adr = 0 /\ ix = 0 /\ asc = << >> /\ cnt = 0 /\ out = << >>)
    /\ Len(history) = Files
    /\ \A i \in 1..Len(history) : \A j \in 1..Len(history) :
          SameInput(history[i], history[j])
             => (history[i].out = history[j].out /\ history[i].ret = history[j].ret)

C19_Witness ==
    /\ pc = "reported"
    /\ Files = 2
    /\ SameInput(history[1], history[2])
    /\ history[1].ret > 3
    /\ history[1].ret % 3 # 0
    /\ history[2].out = history[1].out
    /\ out = history[2].out

C19_WitnessOther ==
    /\ pc = "reported"
    /\ Files = 2
    /\ history[1].ret < 0
    /\ history[1].opt # history[2].opt
    /\ history[2].ret > 0

(***************************************************************************)
(* C20: with Footer set, the line main writes after a dump reads           *)
(* End-of-Dump exactly when the loop of dump_file ended at the byte limit  *)
(* with a byte still read (the file holds more than Count bytes from the   *)
(* start byte on), and End-of-File exactly when it ended at the end of the *)
(* file; in both the number in parentheses is the number of bytes dumped,  *)
(* followed by "byte", or "bytes" when it is not 1.  With Footer clear no  *)
(* such line is written.                                                   *)
(***************************************************************************)
\* the decimal digits of t from place k on
RECURSIVE DigitsFrom(_, _)
DigitsFrom(t, k) ==
    IF k <= Len(t) /\ DigitVal(t[k]) < 10
    THEN << t[k] >> \o DigitsFrom(t, k + 1)
    ELSE << >>

RECURSIVE DecVal(_)
DecVal(t) ==
    IF t = << >> THEN 0
    ELSE 10 * DecVal(SubSeq(t, 1, Len(t) - 1)) + DigitVal(t[Len(t)])

StartsWith(t, w) == Len(t) >= Len(w) /\ SubSeq(t, 1, Len(w)) = w

FileWord == << "E", "n", "d", "-", "o", "f", "-", "F", "i", "l", "e" >>
DumpWord == << "E", "n", "d", "-", "o", "f", "-", "D", "u", "m", "p" >>

C20_FooterTellsWhy ==
    /\ pc # "reported" => NumKind(out, "foot") = 0
    /\ (pc = "reported" /\ Footer = 0) => NumKind(out, "foot") = 0
    /\ (pc = "reported" /\ Footer # 0) =>
          LET t == out[Len(out)].text
              word == SubSeq(t, 5, 15)
              ds == DigitsFrom(t, 20)
              n == NumKind(out, "byte")
              byLimit == ch # EOF
          IN  /\ NumKind(out, "foot") = 1
              /\ out[Len(out)].kind = "foot"
              /\ byLimit <=> (Count > 0 /\ FileLen - Start > Count)
              /\ word = DumpWord <=> byLimit
              /\ word = FileWord <=> ~byLimit
              /\ t[19] = "("
              /\ Len(ds) > 0
              /\ DecVal(ds) = n
              /\ n = cnt
              /\ StartsWith(SubSeq(t, 20 + Len(ds), Len(t)),
                            << " ", "b", "y", "t", "e" >>
                               \o (IF n = 1 THEN << >> ELSE << "s" >>) \o << ")" >>)
              /\ t[Len(t)] = "NL"

C20_Witness ==
    /\ pc = "reported"
    /\ Footer # 0
    /\ Files = 2
    /\ ret = 0 - MaxCount
    /\ history[1].ret = 1
    /\ SubSeq(out[Len(out)].text, 5, 15) = DumpWord
    /\ SubSeq(history[1].out[Len(history[1].out)].text, 5, 15) = FileWord

C20_WitnessExact ==
    /\ pc = "reported"
    /\ Footer # 0
    /\ Count = MaxCount
    /\ FileLen - Start = Count
    /\ SubSeq(out[Len(out)].text, 5, 15) = FileWord

(***************************************************************************)
(* C24: the value returned is negative (the dump was cut) exactly when     *)
(* Count > 0 and the file holds more than Count bytes from the start byte  *)
(* on; a file that ends exactly where the limit is reached returns Count,  *)
(* as an end of file.  In both cases the magnitude is the number of bytes  *)
(* dumped.                                                                 *)
(***************************************************************************)
C24_CutIffMoreBytes ==
    pc = "done"
       => /\ ret < 0 <=> (Count > 0 /\ FileLen - Start > Count)
          /\ (Count > 0 /\ FileLen - Start = Count) => ret = Count
          /\ (IF ret < 0 THEN 0 - ret ELSE ret) = NumKind(out, "byte")

C24_Witness ==
    /\ pc = "done"
    /\ Count = MaxCount
    /\ Start > 0
    /\ FileLen - Start = Count
    /\ ret = Count
    /\ ch = EOF

C24_WitnessCut ==
    /\ pc = "done"
    /\ Count = MaxCount
    /\ FileLen - Start = Count + 1
    /\ ret = 0 - Count

(***************************************************************************)
(* C25: with PerLine > 0 the line index is at least 0 and less than        *)
(* PerLine whenever a byte is read, and never more than PerLine: the       *)
(* iteration that makes it PerLine ends the line and sets it to 0 and asc  *)
(* to empty; only the blank fill of the last line leaves it at PerLine.    *)
(***************************************************************************)
C25_LineIndexInRange ==
    PerLine > 0
       => /\ 0 <= ix /\ ix <= PerLine
          /\ pc \in {"loop", "eof"} =>
                /\ ix < PerLine
                /\ ix = cnt % PerLine
                /\ Ascii # 0 => Len(asc) = ix
                /\ ix = NumKind(OpenLine, "byte")
          /\ (pc = "done" /\ ix = PerLine) => NumKind(out, "pad") > 0

C25_Witness ==
    /\ pc = "loop"
    /\ PerLine = 3
    /\ Ascii # 0
    /\ cnt = 2 * PerLine
    /\ ix = 0
    /\ asc = << >>
    /\ Len(DumpLines) = 2

C25_WitnessFill ==
    /\ pc = "done"
    /\ PerLine = 4
    /\ ix = PerLine
    /\ cnt = PerLine + 1

(***************************************************************************)
(* C26: throughout the loop the address is the number of bytes passed over *)
(* plus the number of bytes dumped; the number passed over is never more   *)
(* than Start; no byte is dumped before Start bytes are passed over; and   *)
(* with Count > 0 the number of bytes dumped is never more than Count.     *)
(***************************************************************************)
C26_LoopCounters ==
    LET skipped == adr - cnt
    IN  /\ 0 <= skipped /\ skipped <= Start
        /\ cnt > 0 => skipped = Start
        /\ cnt = NumKind(out, "byte")
        /\ Count > 0 => cnt <= Count
        /\ pc = "loop" => pos = adr
        /\ \A j \in 1..NumKind(out, "byte") :
              HexVal(OfKind(out, "byte")[j].text) = FileByte(Start + j - 1)

C26_Witness ==
    /\ pc = "loop"
    /\ Start = MaxStart
    /\ Count = MaxCount
    /\ cnt = Count
    /\ adr = Start + Count
    /\ FileLen > adr

(***************************************************************************)
(* C30 as claimed: the footer carries the note (EoF before N-byte limit)   *)
(* exactly when a byte limit N > 0 is set and the file ended before N      *)
(* bytes were dumped; it does not carry it when exactly N bytes were       *)
(* dumped or when no limit is set.                                         *)
(***************************************************************************)
Contains(t, w) == \E k \in 1..(Len(t) - Len(w) + 1) : SubSeq(t, k, k + Len(w) - 1) = w

BeforeWord == << "E", "o", "F", " ", "b", "e", "f", "o", "r", "e" >>

C30_NoteOnlyWhenShort ==
    (pc = "reported" /\ Footer # 0)
       => (Contains(out[Len(out)].text, BeforeWord)
              <=> (Count > 0 /\ ch = EOF /\ cnt < Count))

(***************************************************************************)
(* what.c on its own: a program that calls what() with what-strings, NULL  *)
(* and queries, in any order.  The what-strings of the first call are the  *)
(* lead-in, an optional blank, up to MaxWords words separated by one       *)
(* blank, two blanks or a tab, and an optional trailing blank.             *)
(***************************************************************************)
MaxWords == 5

WhatWord(i) ==
    CASE i = 1 -> << "d", "m", "p" >>
      [] i = 2 -> << "v", "1" >>
      [] i = 3 -> << "d" >>
      [] i = 4 -> << "x", "x" >>
      [] OTHER -> << "y" >>

WhatSeps == { << " " >>, << " ", " " >>, << "TAB" >> }

\* the what-strings bodies of n words
RECURSIVE WhatBodies(_)
WhatBodies(n) ==
    IF n = 0 THEN { << >> }
    ELSE IF n = 1 THEN { WhatWord(1) }
    ELSE { b \o sp \o WhatWord(n) : b \in WhatBodies(n - 1), sp \in WhatSeps }

WhatStrings ==
    { WhatLead \o gap \o b \o tail :
        gap \in { << >>, << " " >> },
        b \in UNION { WhatBodies(n) : n \in 0..MaxWords },
        tail \in { << >>, << " " >> } }

\* what-strings of a later call
WhatAgainStrings ==
    { DmpWhat, WhatExample, WhatLead, WhatLead \o << " " >>,
      WhatLead \o << "a", " ", "b" >> }

QBogus == << "b", "o", "g", "u", "s" >>

WhatQueries == { QName, QVer, QDate, QExtra, QWhat, << >>, QBogus }

WhatFirst == pc = "what" /\ whatArg = NoCall /\ \E s \in WhatStrings : WhatCall(s)

WhatAgain == pc = "what" /\ whatArg # NoCall /\ \E s \in WhatAgainStrings : WhatCall(s)

WhatNull == pc = "what" /\ WhatCall(Null)

WhatQuery == pc = "what" /\ \E q \in WhatQueries : WhatCall(q)

NextWhat == WhatFirst \/ WhatAgain \/ WhatNull \/ WhatQuery

InitWhat ==
    /\ Startup
    /\ argv = << >>
    /\ Name = Null
    /\ Pipe = FALSE
    /\ pc = "what"
    /\ WhatInit

SpecWhat == InitWhat /\ [][NextWhat]_vars

(***************************************************************************)
(* The command line.  argv holds the arguments behind the program name, so *)
(* the code's *aix < argc is aix <= Len(argv).  An argument is a sequence  *)
(* of characters.  The options -e and -f choose the output file and leave  *)
(* the dump alone; the model keeps them only as accepted or rejected.      *)
(***************************************************************************)
DefPipe == << "p", "i", "p", "e" >>

HelpErr == 411
OpenErr == 2
AsciiMax == 24

OptDebug == << "d", "e", "b", "u", "g" >>
OptAbout == << "a", "b", "o", "u", "t" >>
OptHelp == << "h", "e", "l", "p" >>
OptVer == << "v", "e", "r" >>
OptVersion == << "v", "e", "r", "s", "i", "o", "n" >>
OptXo == << "x", "o" >>

IsDigit(c) == c \in { "0", "1", "2", "3", "4", "5", "6", "7", "8", "9" }

DigitNum(c) ==
    CASE c = "0" -> 0 [] c = "1" -> 1 [] c = "2" -> 2 [] c = "3" -> 3 [] c = "4" -> 4
      [] c = "5" -> 5 [] c = "6" -> 6 [] c = "7" -> 7 [] c = "8" -> 8 [] c = "9" -> 9

\* sscanf( s, "%i", ... ) of a string that begins with a digit other than a
\* leading 0: the decimal value of its leading digits
RECURSIVE ScanFrom(_, _, _)
ScanFrom(s, k, acc) ==
    IF k <= Len(s) /\ IsDigit(s[k]) THEN ScanFrom(s, k + 1, acc * 10 + DigitNum(s[k]))
    ELSE acc

ScanInt(s) == ScanFrom(s, 1, 0)

AllDigits(s) == \A k \in 1..Len(s) : IsDigit(s[k])

Bit(b) == IF b THEN 1 ELSE 0

\* the option globals that proc_args sets, as a record
CurOptions ==
    [ Ascii |-> Ascii, LoCase |-> LoCase, WordLen |-> WordLen, PerLine |-> PerLine,
      AddrNum |-> AddrNum, HalfGap |-> HalfGap, EndAddr |-> EndAddr,
      AscWide |-> AscWide, HexDump |-> HexDump, Start |-> Start, Count |-> Count,
      Footer |-> Footer ]

SetOptionsNext(o) ==
    /\ Ascii' = o.Ascii
    /\ LoCase' = o.LoCase
    /\ WordLen' = o.WordLen
    /\ PerLine' = o.PerLine
    /\ AddrNum' = o.AddrNum
    /\ HalfGap' = o.HalfGap
    /\ EndAddr' = o.EndAddr
    /\ AscWide' = o.AscWide
    /\ HexDump' = o.HexDump
    /\ Start' = o.Start
    /\ Count' = o.Count
    /\ Footer' = o.Footer

\* optn: the argument behind its '-', '+', '--' or '++'
OptionString(arg) ==
    SubSeq(arg, (IF Len(arg) >= 2 /\ arg[2] = arg[1] THEN 2 ELSE 1) + 1, Len(arg))

Accept(o) == [ o |-> o, err |-> 0 ]

Reject(o, e) == [ o |-> o, err |-> e ]

\* -p and -p#: the bytes per line, and the gutter off for 0 and above 24
PerLineOption(o, rest) ==
    IF ~AllDigits(rest) THEN Reject([ o EXCEPT !.PerLine = DefPerLine ], 1)
    ELSE LET n == IF rest = << >> THEN 0 ELSE ScanInt(rest)
         IN  IF n = 0 THEN Accept([ o EXCEPT !.PerLine = 0, !.AddrNum = 0, !.Ascii = 0 ])
             ELSE IF n > AsciiMax THEN Accept([ o EXCEPT !.PerLine = n, !.Ascii = 0 ])
             ELSE Accept([ o EXCEPT !.PerLine = n ])

\* -b, +b, -w, +w and the forms with a number
WordOption(o, opt, mx, rest) ==
    IF ~AllDigits(rest) THEN Reject(o, 1)
    ELSE IF rest = << >>
         THEN Accept([ o EXCEPT !.WordLen = IF opt = "b" THEN (IF mx THEN 2 ELSE 1)
                                             ELSE (IF mx THEN 8 ELSE 4) ])
         ELSE Accept([ o EXCEPT !.WordLen = ScanInt(rest) ])

\* -n and -n?
AddrOption(o, mx, rest) ==
    IF rest = << >> \/ rest[1] = "0" THEN Accept([ o EXCEPT !.AddrNum = 0 ])
    ELSE IF rest[1] \in { "s", "1" } THEN Accept([ o EXCEPT !.AddrNum = 1 ])
    ELSE IF rest[1] \in { "l", "2" } THEN Accept([ o EXCEPT !.AddrNum = 2 ])
    ELSE IF rest[1] \in { "v", "3" } THEN Accept([ o EXCEPT !.AddrNum = 3 ])
    ELSE Reject([ o EXCEPT !.AddrNum = Bit(mx) ], 1)

\* -e and -f with their accepted forms
FileOption(o, opt, rest) ==
    IF rest = << >> \/ rest[1] = "." \/ (opt = "f" /\ rest[1] \in { ":", "=" })
    THEN Accept(o) ELSE Reject(o, 1)

\* what one option argument (not an isolated '-' or '--') does to the option
\* globals o, and the err it leaves
OptionEffect(o, arg) ==
    LET mx == arg[1] = "+"
        optn == OptionString(arg)
        opt == optn[1]
        rest == Tail(optn)
    IN  IF optn = OptDebug THEN Accept(o)
        ELSE IF optn \in { OptAbout, OptHelp, OptVer, OptVersion } THEN Reject(o, HelpErr)
        ELSE IF optn = OptXo
             THEN Accept([ o EXCEPT !.AddrNum = 0, !.Ascii = 0, !.PerLine = 0,
                                    !.HalfGap = 0, !.WordLen = Bit(~mx) ])
        ELSE IF IsDigit(opt)
             THEN IF mx THEN Accept([ o EXCEPT !.Start = ScanInt(optn) ])
                  ELSE Accept([ o EXCEPT !.Count = ScanInt(optn) ])
        ELSE IF opt = "a" THEN Accept([ o EXCEPT !.Ascii = Bit(mx) ])
        ELSE IF opt = "c"
             THEN Accept([ o EXCEPT !.PerLine = IF mx THEN 0 ELSE o.PerLine,
                                    !.HalfGap = 0, !.WordLen = 0,
                                    !.Ascii = 0, !.AddrNum = 0 ])
        ELSE IF opt \in { "e", "f" } THEN FileOption(o, opt, rest)
        ELSE IF opt = "i" THEN Accept([ o EXCEPT !.Footer = Bit(mx) ])
        ELSE IF opt = "l" THEN Accept([ o EXCEPT !.LoCase = Bit(~mx) ])
        ELSE IF opt = "n" THEN AddrOption(o, mx, rest)
        ELSE IF opt = "p" THEN PerLineOption(o, rest)
        ELSE IF opt \in { "b", "w" } THEN WordOption(o, opt, mx, rest)
        ELSE IF opt = "x" THEN Accept([ o EXCEPT !.HexDump = Bit(mx) ])
        ELSE IF opt = "X"
             THEN Accept([ o EXCEPT !.Footer = 0, !.LoCase = 1, !.AddrNum = 2,
                                    !.Ascii = 1, !.PerLine = DefPerLine,
                                    !.HalfGap = XHalfGap, !.WordLen = 1,
                                    !.AscWide = 0, !.EndAddr = 1 ])
        ELSE Reject(o, 1)

IsOption(arg) == arg # << >> /\ arg[1] \in { "-", "+" }

\* an isolated '-' or '--' ('+' or '++')
IsDash(arg) == IsOption(arg) /\ OptionString(arg) = << >>

\* !Name[0] || isspace( Name[0] )
IsBlankName(n) == n = << >> \/ n[1] \in { " ", "TAB" }

\* FoundName that does not look at Pipe
FoundNameAnyInput(pipe, name) == name # Null

\* if ( !Pipe && Name ): a file name has been found
FoundName(pipe, name) == ~pipe /\ name # Null

\* ClosedName that keeps the name of the file just dumped
ClosedNameKept(pipe, name) == name

\* Name after the input file is closed
ClosedName(pipe, name) == IF pipe THEN name ELSE Null

\* while ( aix < argc && !err ) of main, and of proc_args
MoreArgs(a, e) == a <= Len(argv) /\ e = 0

\* where main goes when proc_args has returned
AfterArgs(name, a, e) ==
    IF name # Null /\ e = 0 THEN "open"
    ELSE IF MoreArgs(a, e) THEN "args" ELSE "exit"

\* one turn of the loop of proc_args: one argument, or an isolated '-' and
\* the file name behind it
ProcArg ==
    /\ pc = "args"
    /\ MoreArgs(aix, err)
    /\ LET arg == argv[aix]
           eff == IF IsOption(arg) /\ ~IsDash(arg) THEN OptionEffect(CurOptions, arg)
                  ELSE Accept(CurOptions)
           at == IF IsDash(arg) THEN aix + 1 ELSE aix
           named == (~IsOption(arg) \/ IsDash(arg)) /\ at <= Len(argv)
           e == IF named /\ Pipe THEN 1 ELSE eff.err
           nm == IF named /\ ~Pipe THEN argv[at] ELSE Name
           found == FoundName(Pipe, nm)
       IN  /\ SetOptionsNext(eff.o)
           /\ err' = e
           /\ aix' = at + 1
           /\ Name' = IF found /\ IsBlankName(nm) THEN Null ELSE nm
           /\ pc' = IF found /\ ~IsBlankName(nm) THEN AfterArgs(nm, at + 1, e) ELSE "args"
    /\ UNCHANGED <<fileVars, Files, history, argv, Pipe, whatVars, dumpVars>>

\* the loop of proc_args ends: no argument is left, or err is set
ArgsEnd ==
    /\ pc = "args"
    /\ ~MoreArgs(aix, err)
    /\ pc' = AfterArgs(Name, aix, err)
    /\ UNCHANGED <<cfgVars, fileVars, mainVars, dumpVars>>

\* open_files, and dump_file entered when the input is open
OpenFile(lens) ==
    /\ pc = "open"
    /\ \/ /\ FileLen' \in lens
          /\ FileRot' = 0
          /\ FileErr' = FALSE
          /\ EnterDump
          /\ pos' = 0
          /\ out' = << >>
          /\ ret' = 0
          /\ pc' = "loop"
          /\ UNCHANGED <<cfgVars, mainVars>>
       \/ /\ ~Pipe
          /\ err' = OpenErr
          /\ pc' = "exit"
          /\ UNCHANGED <<cfgVars, fileVars, Footer, Files, history, argv, aix, Name, Pipe,
                         whatVars, dumpVars>>

\* the input file is closed and main's loop is tested
CloseFile ==
    /\ pc = "reported"
    /\ Name' = ClosedName(Pipe, Name)
    /\ pc' = IF MoreArgs(aix, err) THEN "args" ELSE "exit"
    /\ UNCHANGED <<cfgVars, fileVars, Footer, Files, history, argv, aix, err, Pipe,
                   whatVars, dumpVars>>

\* the argument lists of up to n arguments
ArgLists(tokens, n) == UNION { [ 1..k -> tokens ] : k \in 0..n }

\* main before its loop, called with the arguments args
MainLoopInit(args) ==
    /\ Startup
    /\ WhatLoaded
    /\ argv = args
    /\ Name = (IF Pipe THEN DefPipe ELSE Null)
    /\ (~Pipe => args # << >>)
    /\ pc = "args"

(***************************************************************************)
(* Short command lines of options, file names, an isolated '-', a rejected *)
(* option and an empty argument, from a terminal and from a pipe; the      *)
(* files are empty or two bytes long, or cannot be opened.                 *)
(***************************************************************************)
MaxArgs == 3

CmdTokens ==
    { << "-", "1" >>, << "+", "1" >>, << "-", "z", "z" >>, << "-" >>, FileA, << >> }

ShortLens == { 0, 2 }

OpenShort == pc = "open" /\ OpenFile(ShortLens)

NextCmd ==
    ProcArg \/ ArgsEnd \/ OpenShort \/ LoopExit \/ Skip \/ DumpByte \/ EndOfFile
       \/ Report \/ CloseFile

InitCmd ==
    /\ Pipe \in BOOLEAN
    /\ \E args \in ArgLists(CmdTokens, MaxArgs) : MainLoopInit(args)

SpecCmd == InitCmd /\ [][NextCmd]_vars

(***************************************************************************)
(* Command lines of up to MaxOpts layout options, with or without a file   *)
(* behind them; the file fills the gutter buffer or has one byte more.     *)
(***************************************************************************)
MaxOpts == 2

LayoutTokens ==
    { << "-", "p" >>, << "-", "p", "3" >>, << "-", "p", "6", "4" >>, << "+", "a" >>,
      << "-", "X" >>, << "+", "c" >>, << "-", "x", "o" >>, << "+", "1" >> }

LongLens == { AscSize, AscSize + 1 }

OpenLong == pc = "open" /\ OpenFile(LongLens)

NextArgs ==
    ProcArg \/ ArgsEnd \/ OpenLong \/ LoopExit \/ Skip \/ DumpByte \/ EndOfFile
       \/ AscFault \/ EofFault \/ Report \/ CloseFile

InitArgs ==
    /\ Pipe = FALSE
    /\ \E opts \in ArgLists(LayoutTokens, MaxOpts), file \in { << >>, << FileA >> } :
          MainLoopInit(opts \o file)

SpecArgs == InitArgs /\ [][NextArgs]_vars

(***************************************************************************)
(* Reading a what-string back: the words of the text behind the lead-in,   *)
(* found by their places, not by cutting the string up.                    *)
(***************************************************************************)
AfterLead(s) == SubSeq(s, Len(WhatLead) + 1, Len(s))

WordStarts(t) == { k \in 1..Len(t) : t[k] # " " /\ (k = 1 \/ t[k - 1] = " ") }

\* the place where the i-th word of t begins
WordStart(t, i) ==
    CHOOSE k \in WordStarts(t) : Cardinality({ j \in WordStarts(t) : j <= k }) = i

\* the place of the last character of the word that begins at k
WordLast(t, k) ==
    CHOOSE j \in k..Len(t) :
        /\ \A m \in k..j : t[m] # " "
        /\ (j = Len(t) \/ t[j + 1] = " ")

\* what the claim expects of item i (1 name, 2 ver, 3 date, 4 extra)
ExpectedItem(s, i) ==
    LET t == AfterLead(s)
    IN  IF i > Cardinality(WordStarts(t)) THEN << >>
        ELSE IF i < NumItems THEN SubSeq(t, WordStart(t, i), WordLast(t, WordStart(t, i)))
        ELSE SubSeq(t, WordStart(t, i), Len(t))

NoTab(s) == \A k \in 1..Len(s) : s[k] # "TAB"

ItemQuery(i) ==
    CASE i = 1 -> QName
      [] i = 2 -> QVer
      [] i = 3 -> QDate
      [] OTHER -> QExtra

\* C23: while a what-string whose words are separated by blanks is loaded,
\* a query for the name, the version or the date returns the first, second
\* or third word behind the lead-in, a query for the extra returns the rest
\* of the string from the fourth word on, and a query for a word that the
\* string does not have returns the empty string.
C23_TokensReturned ==
    (pc = "what" /\ WhatStr[1] # Null /\ NoTab(WhatTok))
       => \A i \in 1..NumItems :
             /\ WhatsThe(WhatState, i) = ExpectedItem(WhatTok, i)
             /\ whatArg = ItemQuery(i) => whatRet = ExpectedItem(WhatTok, i)

\* the example of the claim: the date of '@(#)dmp.c v0.11 08/24/2021 DataM'
C23_Witness ==
    /\ WhatTok = WhatExample
    /\ whatArg = QDate
    /\ whatRet = << "0", "8", "/", "2", "4", "/", "2", "0", "2", "1" >>

\* the extra is more than the fourth word: a fifth word follows it
C23_WitnessRest ==
    /\ WhatStr[1] # Null
    /\ NoTab(WhatTok)
    /\ Cardinality(WordStarts(AfterLead(WhatTok))) = 5
    /\ whatArg = QExtra
    /\ Len(whatRet) > Len(WhatWord(4)) + 1

\* a what-string of two words: the date is the empty string
C23_WitnessMissing ==
    /\ WhatStr[1] # Null
    /\ NoTab(WhatTok)
    /\ Cardinality(WordStarts(AfterLead(WhatTok))) = 2
    /\ whatArg = QDate
    /\ whatRet = << >>

\* C28: while no what-string is loaded, a query for the name, the version,
\* the date, the extra or the whole what-string returns one of the two
\* status messages, '(not initialized)' or '(no version information)'.
C28_StatusWhenUnloaded ==
    (pc = "what" /\ WhatStr[1] = Null /\ whatArg \in { QName, QVer, QDate, QExtra, QWhat })
       => whatRet \in { NotInit, NoInfo }

\* C29: a query call of what (name, ver, date, extra, what, the empty
\* string, an unknown option) leaves what the four item queries return as
\* it was before the call.
C29_QueriesKeepAnswers ==
    [][ (pc = "what" /\ whatArg' \in WhatQueries)
           => \A i \in 1..NumItems : WhatsThe(WhatState, i)' = WhatsThe(WhatState, i) ]_vars

(***************************************************************************)
(* Reading a command line back: which arguments are file names, and what   *)
(* the options in front of a place leave in the option globals.            *)
(***************************************************************************)
RECURSIVE NamePlaces(_, _)
NamePlaces(a, k) ==
    IF k > Len(a) THEN { }
    ELSE IF IsDash(a[k])
         THEN (IF k + 1 <= Len(a) THEN { k + 1 } ELSE { }) \cup NamePlaces(a, k + 2)
    ELSE IF IsOption(a[k]) THEN NamePlaces(a, k + 1)
    ELSE { k } \cup NamePlaces(a, k + 1)

OptionPlaces(a) ==
    { k \in 1..Len(a) : k \notin NamePlaces(a, 1) /\ IsOption(a[k]) /\ ~IsDash(a[k]) }

StartOptions ==
    [ f \in DOMAIN Defaults \cup { "Footer" } |-> IF f = "Footer" THEN 1 ELSE Defaults[f] ]

\* the options at the places j to k - 1 applied to r.o; r.err is the err of
\* the first one rejected
RECURSIVE FoldOptions(_, _, _, _)
FoldOptions(a, j, k, r) ==
    IF j >= k THEN r
    ELSE IF j \in OptionPlaces(a)
         THEN LET e == OptionEffect(r.o, a[j])
              IN  FoldOptions(a, j + 1, k,
                              [ o |-> e.o, err |-> IF r.err # 0 THEN r.err ELSE e.err ])
    ELSE FoldOptions(a, j + 1, k, r)

OptionsBefore(a, k) == FoldOptions(a, 1, k, Accept(StartOptions))

OptTuple(o) ==
    << o.Ascii, o.LoCase, o.WordLen, o.PerLine, o.AddrNum, o.HalfGap, o.EndAddr,
       o.AscWide, o.HexDump, o.Start, o.Count >>

KthOf(S, k) == CHOOSE x \in S : Cardinality({ y \in S : y <= x }) = k

Dumping == pc \in { "open", "loop", "eof", "done", "reported" }

C21_WitnessName ==
    /\ Pipe
    /\ pc = "exit"
    /\ NamePlaces(argv, 1) # { }
    /\ OptionsBefore(argv, Len(argv) + 1).err = 0
    /\ Count = 1
    /\ err = 1
    /\ Files = 0

\* C22 as stated: in file mode the run dumps one file per file name
\* argument, in the order of the command line, each with the option values
\* that the options in front of it leave.
C22_FilesInOrder ==
    (~Pipe /\ pc = "exit")
       => LET names == NamePlaces(argv, 1)
          IN  /\ Len(history) = Cardinality(names)
              /\ \A k \in 1..Len(history) :
                    /\ history[k].arg = KthOf(names, k)
                    /\ history[k].name = argv[KthOf(names, k)]
                    /\ history[k].opt = OptTuple(OptionsBefore(argv, KthOf(names, k)).o)

\* C22: in file mode the run dumps the files of the file name arguments
\* that are not empty and do not begin with white space, in the order of the
\* command line, each with the option values that the options in front of
\* it leave, none of them rejected; the run ends at the first rejected option
\* and at the first file that cannot be opened, and dumps every such file
\* when it ends without an error.
C22_FilesInOrderUntilError ==
    ~Pipe
       => LET names == { k \in NamePlaces(argv, 1) : ~IsBlankName(argv[k]) }
          IN  /\ Len(history) <= Cardinality(names)
              /\ \A k \in 1..Len(history) :
                    /\ history[k].arg = KthOf(names, k)
                    /\ history[k].name = argv[KthOf(names, k)]
                    /\ history[k].opt = OptTuple(OptionsBefore(argv, KthOf(names, k)).o)
                    /\ OptionsBefore(argv, KthOf(names, k)).err = 0
              /\ (pc = "exit" /\ err = 0) => Len(history) = Cardinality(names)

\* two files with an option between them: the second dump has the byte
\* limit, the first has none
C22_Witness ==
    /\ ~Pipe
    /\ pc = "exit"
    /\ err = 0
    /\ Len(history) = 2
    /\ history[1].opt[11] = 0
    /\ history[2].opt[11] = 1
    /\ history[1].len = history[2].len
    /\ history[1].out # history[2].out

\* a rejected option between two file names: one dump only
C22_WitnessStopped ==
    /\ ~Pipe
    /\ pc = "exit"
    /\ err = 1
    /\ Cardinality(NamePlaces(argv, 1)) = 2
    /\ Len(history) = 1

\* C27: whenever dump_file runs with the gutter on, after any options that
\* proc_args accepts, the bytes per line are between 1 and 63, and no write
\* into asc and no print of it goes beyond its 64 bytes.
C27_GutterFitsBuffer ==
    /\ pc # "fault"
    /\ (pc \in { "loop", "eof", "done" } /\ Ascii # 0) => (1 <= PerLine /\ PerLine < AscSize)

====
